---- MODULE Spec2Model ----
(***************************************************************************)
(* A model of the personal finance ledger (Django application "finance"):  *)
(* the currency converter, the balance calculation of an asset, the        *)
(* statistics aggregation, the listings of assets and of transactions, and *)
(* the request handlers that change the store of assets and transactions.  *)
(*                                                                         *)
(* Money.  The code computes with decimal.Decimal, which is exact.  The    *)
(* model keeps every amount as an integer count of 10^-5 currency units:   *)
(* a stored amount has two decimal places (DecimalField decimal_places=2)  *)
(* and a rate has at most three, so a converted amount has at most five    *)
(* and every sum and product the code forms is an exact integer here.      *)
(***************************************************************************)
EXTENDS Integers, Sequences, FiniteSets, TLC

VARIABLES
    assets,        \* the rows of the Asset table
    transactions,  \* the rows of the Transaction table
    now,           \* timezone.now()
    response,      \* the response to the latest request
    call           \* the latest call of a function or a view and its outcome;
                   \* where requests overlap, the requests in progress

vars == <<assets, transactions, now, response, call>>

(***************************************************************************)
(* Decimal values                                                          *)
(***************************************************************************)

\* One hundredth of a currency unit, in 10^-5 units: the resolution of
\* Transaction.amount (decimal_places=2).
Cent == 1000

\* Decimal('<n>') for a whole number of currency units.
Dec(n) == n * 100 * Cent

(***************************************************************************)
(* finance/currency.py                                                     *)
(***************************************************************************)

\* The outcome of a call: a returned value, or a raised exception.
Return(v) == [exc |-> "none", val |-> v]

Raise(e) == [exc |-> e, val |-> 0]

\* CurrencyConverter.RATES, each rate in thousandths (0.011 is 11).
RATES ==
    (<<"RUB", "USD">> :> 11) @@
    (<<"USD", "RUB">> :> 90000) @@
    (<<"RUB", "EUR">> :> 10) @@
    (<<"EUR", "RUB">> :> 100000) @@
    (<<"USD", "EUR">> :> 920) @@
    (<<"EUR", "USD">> :> 1090)

\* cls.RATES.get((from_currency, to_currency)) is None
NoRate(from_currency, to_currency) ==
    <<from_currency, to_currency>> \notin DOMAIN RATES

\* amount * rate: hundredths times thousandths are 10^-5 units, exactly.
Times(amount, rate) == (amount \div Cent) * rate

\* convert with the table looked up before the currencies are compared.
convert_lookup_first(amount, from_currency, to_currency) ==
    IF NoRate(from_currency, to_currency)
    THEN Raise("ValueError")
    ELSE Return(Times(amount, RATES[<<from_currency, to_currency>>]))

\* convert with a missing rate taken as 1.
convert_default_rate(amount, from_currency, to_currency) ==
    IF from_currency = to_currency \/ NoRate(from_currency, to_currency)
    THEN Return(amount)
    ELSE Return(Times(amount, RATES[<<from_currency, to_currency>>]))

\* convert with the product rounded down to two decimal places.
convert_quantized(amount, from_currency, to_currency) ==
    IF from_currency = to_currency
    THEN Return(amount)
    ELSE IF NoRate(from_currency, to_currency)
         THEN Raise("ValueError")
         ELSE Return((Times(amount, RATES[<<from_currency, to_currency>>]) \div Cent) * Cent)

\* CurrencyConverter.convert
convert(amount, from_currency, to_currency) ==
    IF from_currency = to_currency
    THEN Return(amount)
    ELSE IF NoRate(from_currency, to_currency)
         THEN Raise("ValueError")
         ELSE Return(Times(amount, RATES[<<from_currency, to_currency>>]))

(***************************************************************************)
(* Instants.  A timezone-aware datetime is the tuple                       *)
(* <<year, month, day, hour, minute, second>>; every datetime of the       *)
(* program is made aware in the one configured timezone, so instants are   *)
(* ordered as their tuples are, lexicographically.                         *)
(***************************************************************************)

\* make_aware(datetime(year, month, day, hour, minute, second))
datetime(year, month, day, hour, minute, second) ==
    <<year, month, day, hour, minute, second>>

\* a < b on datetimes
before(a, b) ==
    IF a[1] # b[1] THEN a[1] < b[1]
    ELSE IF a[2] # b[2] THEN a[2] < b[2]
    ELSE IF a[3] # b[3] THEN a[3] < b[3]
    ELSE IF a[4] # b[4] THEN a[4] < b[4]
    ELSE IF a[5] # b[5] THEN a[5] < b[5]
    ELSE a[6] < b[6]

\* date__lte read as "earlier than".
date__lt(a, b) == before(a, b)

\* The lookup date__lte=b applied to a.
date__lte(a, b) == a = b \/ before(a, b)

\* The lookup date__gte=b applied to a.
date__gte(a, b) == a = b \/ before(b, a)

(***************************************************************************)
(* finance/models.py                                                       *)
(***************************************************************************)

\* A null foreign key (from_asset_id / to_asset_id is None).
None == 0

\* TransactionType
WASTE == "WASTE"

TRANSFER == "TRANSFER"

REFILL == "REFILL"

CHANGING_BALANCE == "CHANGING_BALANCE"

TransactionType == {WASTE, TRANSFER, REFILL, CHANGING_BALANCE}

\* A row of the Asset table.  name and the fields of the subtypes (location,
\* bank_name, ...) are left out: no balance, statistic or guard reads them.
Asset(id, user, type, currency, is_active) ==
    [id |-> id, user |-> user, type |-> type, currency |-> currency,
     is_active |-> is_active]

\* A row of the Transaction table (description left out).
Transaction(id, user, type, amount, currency, from_asset, to_asset, category, date) ==
    [id |-> id, user |-> user, type |-> type, amount |-> amount,
     currency |-> currency, from_asset |-> from_asset, to_asset |-> to_asset,
     category |-> category, date |-> date]

\* Transaction.Meta.ordering = ['-date']: a queryset as the sequence its
\* iteration yields, latest first; rows of equal date in primary-key order.
RECURSIVE ordering(_)
ordering(rows) ==
    IF rows = {}
    THEN <<>>
    ELSE LET first == CHOOSE t \in rows : \A u \in rows \ {t} :
                          \/ before(u.date, t.date)
                          \/ (u.date = t.date /\ t.id < u.id)
         IN  <<first>> \o ordering(rows \ {first})

\* incoming_transactions that takes the transactions into any asset.
incoming_any_asset(rows, asset, at_time) ==
    ordering({t \in rows : t.to_asset # None /\ date__lte(t.date, at_time)})

\* incoming_transactions with the statistics view's exclusion copied into it.
incoming_without_changing_balance(rows, asset, at_time) ==
    ordering({t \in rows : /\ t.to_asset = asset.id
                           /\ date__lte(t.date, at_time)
                           /\ t.type # CHANGING_BALANCE})

\* asset.incoming_transactions.filter(date__lte=at_time), the Transaction
\* table holding rows.
incoming_transactions(rows, asset, at_time) ==
    ordering({t \in rows : t.to_asset = asset.id /\ date__lte(t.date, at_time)})

\* outgoing_transactions that also takes the transactions with no from_asset.
outgoing_or_null(rows, asset, at_time) ==
    ordering({t \in rows : /\ t.from_asset \in {asset.id, None}
                           /\ date__lte(t.date, at_time)})

\* asset.outgoing_transactions.filter(date__lte=at_time), the Transaction
\* table holding rows.
outgoing_transactions(rows, asset, at_time) ==
    ordering({t \in rows : t.from_asset = asset.id /\ date__lte(t.date, at_time)})

\* loop_amount that never converts.
loop_amount_unconverted(t, currency) == Return(t.amount)

\* The body of either loop of calculate_balance: the amount of t in the
\* asset's currency.
loop_amount(t, currency) ==
    IF t.currency # currency
    THEN convert(t.amount, t.currency, currency)
    ELSE Return(t.amount)

\* loop_total that leaves out the amounts it cannot convert.
RECURSIVE loop_total_skipping(_, _)
loop_total_skipping(queryset, currency) ==
    IF queryset = <<>>
    THEN Return(0)
    ELSE LET amount == loop_amount(Head(queryset), currency)
             rest == loop_total_skipping(Tail(queryset), currency)
         IN  IF amount.exc # "none" THEN rest
             ELSE Return(amount.val + rest.val)

\* Either loop of calculate_balance: the total of the queryset, or the
\* exception the first failing conversion raises.
RECURSIVE loop_total(_, _)
loop_total(queryset, currency) ==
    IF queryset = <<>>
    THEN Return(0)
    ELSE LET amount == loop_amount(Head(queryset), currency)
             rest == loop_total(Tail(queryset), currency)
         IN  IF amount.exc # "none" THEN amount
             ELSE IF rest.exc # "none" THEN rest
             ELSE Return(amount.val + rest.val)

\* Asset.calculate_balance(at_time), the Transaction table holding rows.
balance_over(rows, asset, at_time) ==
    LET total_in == loop_total(incoming_transactions(rows, asset, at_time),
                               asset.currency)
        total_out == loop_total(outgoing_transactions(rows, asset, at_time),
                                asset.currency)
    IN  IF total_in.exc # "none" THEN total_in
        ELSE IF total_out.exc # "none" THEN total_out
        ELSE Return(total_in.val - total_out.val)

\* Asset.calculate_balance(at_time)
calculate_balance(asset, at_time) == balance_over(transactions, asset, at_time)

\* Asset.balance: calculate_balance() at timezone.now()
balance(asset) == calculate_balance(asset, now)

\* WasteCategory.choices and RefillCategory.choices: value :> label
WasteCategory ==
    ("PRODUCTS" :> "Products") @@
    ("CAFE_AND_RESTAURANTS" :> "Cafe and restaurants") @@
    ("TRANSPORT" :> "Transport") @@
    ("HCS" :> "HCS") @@
    ("LEISURE" :> "Leisure") @@
    ("CLOTHING_AND_SHOES" :> "Clothing and shoes") @@
    ("SPORT" :> "Sport") @@
    ("HEALTH_AND_BEAUTY" :> "Health and beauty") @@
    ("SUBSCRIPTIONS" :> "Subscriptions") @@
    ("TAXES_AND_PENALTIES" :> "Taxes and penalties") @@
    ("LEARNING" :> "Learning") @@
    ("GIFTS" :> "Gifts") @@
    ("TECHNIQUE" :> "Technique") @@
    ("TRAVELING" :> "Traveling") @@
    ("REALTY" :> "Realty") @@
    ("OTHER_WASTE" :> "Other waste")

RefillCategory ==
    ("SALARY" :> "Salary") @@
    ("BONUS" :> "Bonus") @@
    ("CASHBACK" :> "Cashback") @@
    ("SALE" :> "Sale") @@
    ("INVESTMENT" :> "Investment") @@
    ("OTHER_REFILL" :> "Other refill")

(***************************************************************************)
(* finance/views.py: statistics                                            *)
(***************************************************************************)

\* calendar.monthrange(year, month)[1]: the number of days of the month
monthrange(year, month) ==
    IF month = 2
    THEN IF (year % 4 = 0 /\ year % 100 # 0) \/ year % 400 = 0 THEN 29 ELSE 28
    ELSE IF month \in {4, 6, 9, 11} THEN 30 ELSE 31

\* d - timedelta(seconds=1)
minus_second(d) ==
    IF d[6] > 0 THEN <<d[1], d[2], d[3], d[4], d[5], d[6] - 1>>
    ELSE IF d[5] > 0 THEN <<d[1], d[2], d[3], d[4], d[5] - 1, 59>>
    ELSE IF d[4] > 0 THEN <<d[1], d[2], d[3], d[4] - 1, 59, 59>>
    ELSE IF d[3] > 1 THEN <<d[1], d[2], d[3] - 1, 23, 59, 59>>
    ELSE IF d[2] > 1 THEN <<d[1], d[2] - 1, monthrange(d[1], d[2] - 1), 23, 59, 59>>
    ELSE <<d[1] - 1, 12, 31, 23, 59, 59>>

\* The period of a statistics request: year and month are None when the URL
\* gives none.
period_of(year, month) ==
    IF year = None THEN "month" ELSE IF month = None THEN "year" ELSE "month"

\* start_date of the statistics view
stat_start_date(year, month) ==
    LET y == IF year = None THEN now[1] ELSE year
        m == IF year = None THEN now[2] ELSE month
    IN  IF period_of(year, month) = "year"
        THEN datetime(y, 1, 1, 0, 0, 0)
        ELSE datetime(y, m, 1, 0, 0, 0)

\* end_date of the statistics view
stat_end_date(year, month) ==
    LET y == IF year = None THEN now[1] ELSE year
        m == IF year = None THEN now[2] ELSE month
    IN  IF period_of(year, month) = "year"
        THEN datetime(y, 12, 31, 23, 59, 59)
        ELSE IF m = 12
             THEN minus_second(datetime(y + 1, 1, 1, 0, 0, 0))
             ELSE datetime(y, m, monthrange(y, m), 23, 59, 59)

\* transactions_list without the user filter.
stat_transactions_of_anyone(rows, user, year, month) ==
    ordering({t \in rows :
                 /\ date__gte(t.date, stat_start_date(year, month))
                 /\ date__lte(t.date, stat_end_date(year, month))
                 /\ t.type # CHANGING_BALANCE})

\* transactions_list of the statistics view, the Transaction table holding
\* rows.
stat_transactions_list(rows, user, year, month) ==
    ordering({t \in rows :
                 /\ t.user = user
                 /\ date__gte(t.date, stat_start_date(year, month))
                 /\ date__lte(t.date, stat_end_date(year, month))
                 /\ t.type # CHANGING_BALANCE})

\* A dict as the sequence of its <<key, value>> items in insertion order.
\* d[cat] = d.get(cat, Decimal('0')) + amount
dict_add(d, cat, amount) ==
    IF \E i \in 1..Len(d) : d[i][1] = cat
    THEN [i \in 1..Len(d) |->
             IF d[i][1] = cat THEN <<cat, d[i][2] + amount>> ELSE d[i]]
    ELSE Append(d, <<cat, amount>>)

\* The key a Refill is added under.
refill_cat(t) == IF t.category # "" THEN t.category ELSE "OTHER_REFILL"

\* waste_cat without the fallback: the empty category is a key of its own.
waste_cat_raw(t) == t.category

\* The key a Waste is added under.
waste_cat(t) == IF t.category # "" THEN t.category ELSE "OTHER_WASTE"

\* stat_loop with the second branch an else: whatever is not a Refill is
\* counted as a Waste.
RECURSIVE stat_loop_else_waste(_, _)
stat_loop_else_waste(list, acc) ==
    IF list = <<>>
    THEN acc
    ELSE LET t == Head(list)
         IN  stat_loop_else_waste(Tail(list),
                 IF t.type = REFILL
                 THEN [acc EXCEPT
                          !.income_by_category = dict_add(@, refill_cat(t), t.amount),
                          !.total_income = @ + t.amount]
                 ELSE [acc EXCEPT
                          !.outcome_by_category = dict_add(@, waste_cat(t), t.amount),
                          !.total_outcome = @ + t.amount])

\* The aggregation loop of the statistics view, from the state acc =
\* [income_by_category, outcome_by_category, total_income, total_outcome].
RECURSIVE stat_loop(_, _)
stat_loop(list, acc) ==
    IF list = <<>>
    THEN acc
    ELSE LET t == Head(list)
         IN  stat_loop(Tail(list),
                 IF t.type = REFILL
                 THEN [acc EXCEPT
                          !.income_by_category = dict_add(@, refill_cat(t), t.amount),
                          !.total_income = @ + t.amount]
                 ELSE IF t.type = WASTE
                 THEN [acc EXCEPT
                          !.outcome_by_category = dict_add(@, waste_cat(t), t.amount),
                          !.total_outcome = @ + t.amount]
                 ELSE acc)

\* sorted_reverse as an ascending sort read backwards: by amount descending,
\* items of equal amount in the reverse of their order in items.
RECURSIVE sorted_then_reversed(_)
sorted_then_reversed(items) ==
    IF items = <<>>
    THEN <<>>
    ELSE LET i == CHOOSE k \in 1..Len(items) :
                      /\ \A j \in 1..Len(items) : items[j][2] <= items[k][2]
                      /\ \A j \in (k + 1)..Len(items) : items[j][2] < items[k][2]
         IN  <<items[i]>> \o
             sorted_then_reversed([j \in 1..(Len(items) - 1) |->
                                      IF j < i THEN items[j] ELSE items[j + 1]])

\* sorted(items, key=lambda x: x[1], reverse=True): by amount descending,
\* items of equal amount in their order in items.
RECURSIVE sorted_reverse(_)
sorted_reverse(items) ==
    IF items = <<>>
    THEN <<>>
    ELSE LET i == CHOOSE k \in 1..Len(items) :
                      /\ \A j \in 1..Len(items) : items[j][2] <= items[k][2]
                      /\ \A j \in 1..(k - 1) : items[j][2] < items[k][2]
         IN  <<items[i]>> \o
             sorted_reverse([j \in 1..(Len(items) - 1) |->
                                IF j < i THEN items[j] ELSE items[j + 1]])

\* format_category
format_category(cat) ==
    IF cat \in DOMAIN RefillCategory THEN RefillCategory[cat]
    ELSE IF cat \in DOMAIN WasteCategory THEN WasteCategory[cat]
    ELSE cat

colors ==
    <<"#ff6b6b", "#ffa07a", "#ffd93d", "#6bcb77", "#4d96ff", "#9b59b6",
      "#ff9ff3", "#54a0ff", "#5f27cd", "#48dbfb", "#ff9f43", "#ee5a24",
      "#009432", "#1289A7", "#D980FA">>

\* percent_of without the test of the total: amount / total * 100 whatever
\* the total is.
percent_of_unguarded(amount, total) ==
    <<(amount \div Cent) * 100, total \div Cent>>

\* (amount / total * 100) if total > 0 else 0, as the exact fraction
\* <<numerator, denominator>> of hundredths.
percent_of(amount, total) ==
    IF total > 0
    THEN <<(amount \div Cent) * 100, total \div Cent>>
    ELSE <<0, 1>>

\* income_data / outcome_data: the rows built from the sorted items.
stat_data(items, total) ==
    [i \in 1..Len(items) |->
        [category |-> format_category(items[i][1]),
         amount |-> items[i][2],
         percent |-> percent_of(items[i][2], total),
         color |-> colors[((i - 1) % Len(colors)) + 1]]]

\* The context the statistics view renders (the navigation links left out),
\* the Transaction table holding rows.
statistics_over(rows, user, year, month) ==
    LET acc == stat_loop(stat_transactions_list(rows, user, year, month),
                         [income_by_category |-> <<>>, outcome_by_category |-> <<>>,
                          total_income |-> 0, total_outcome |-> 0])
    IN  [period |-> period_of(year, month),
         income_data |-> stat_data(sorted_reverse(acc.income_by_category), acc.total_income),
         outcome_data |-> stat_data(sorted_reverse(acc.outcome_by_category), acc.total_outcome),
         total_income |-> acc.total_income,
         total_outcome |-> acc.total_outcome]

\* The context of the statistics view for a year and a month whose dates
\* exist (statistics_view has the others).
statistics(user, year, month) == statistics_over(transactions, user, year, month)

\* datetime.MINYEAR and datetime.MAXYEAR: datetime(year, ...) raises
\* ValueError for a year outside them.
MINYEAR == 1

MAXYEAR == 9999

\* What the dates of the statistics view raise: datetime(year, 1, 1) or
\* datetime(year, month, 1) for a year or month that does not exist, and, in
\* December, datetime(year + 1, 1, 1), of which a second is then taken off.
stat_dates_exc(year, month) ==
    LET y == IF year = None THEN now[1] ELSE year
        m == IF year = None THEN now[2] ELSE month
    IN  IF y \notin MINYEAR..MAXYEAR THEN "ValueError"
        ELSE IF period_of(year, month) = "year" THEN "none"
        ELSE IF m \notin 1..12 THEN "ValueError"
        ELSE IF m = 12 /\ y + 1 > MAXYEAR THEN "ValueError"
        ELSE "none"

\* statistics: the context rendered, or the exception raised (a response of
\* status 500).
statistics_view(user, year, month) ==
    IF stat_dates_exc(year, month) # "none"
    THEN Raise(stat_dates_exc(year, month))
    ELSE Return([start_date |-> stat_start_date(year, month),
                 end_date |-> stat_end_date(year, month),
                 context |-> statistics(user, year, month)])

(***************************************************************************)
(* finance/views.py: transactions                                          *)
(***************************************************************************)

\* What the dates of the transactions view raise: datetime(year, month, 1)
\* for a year or month that does not exist, current_date - timedelta(days=1)
\* before the first day there is, current_date + timedelta(days=31) after
\* the last.
tx_dates_exc(year, month) ==
    LET y == IF year = None THEN now[1] ELSE year
        m == IF month = None THEN now[2] ELSE month
    IN  IF y \notin MINYEAR..MAXYEAR \/ m \notin 1..12 THEN "ValueError"
        ELSE IF y = MINYEAR /\ m = 1 THEN "OverflowError"
        ELSE IF y = MAXYEAR /\ m = 12 THEN "OverflowError"
        ELSE "none"

\* start_date of the transactions view
tx_start_date(year, month) ==
    LET y == IF year = None THEN now[1] ELSE year
        m == IF month = None THEN now[2] ELSE month
    IN  datetime(y, m, 1, 0, 0, 0)

\* end_date of the transactions view
tx_end_date(year, month) ==
    LET y == IF year = None THEN now[1] ELSE year
        m == IF month = None THEN now[2] ELSE month
    IN  IF m = 12
        THEN minus_second(datetime(y + 1, 1, 1, 0, 0, 0))
        ELSE datetime(y, m, monthrange(y, m), 23, 59, 59)

\* transactions_list of the transactions view, the Transaction table holding
\* rows; asset_uuid is None when the URL gives none.
tx_transactions_list(rows, user, year, month, asset_uuid) ==
    ordering({t \in rows :
                 /\ t.user = user
                 /\ date__gte(t.date, tx_start_date(year, month))
                 /\ date__lte(t.date, tx_end_date(year, month))
                 /\ asset_uuid # None =>
                        (t.from_asset = asset_uuid \/ t.to_asset = asset_uuid)})

\* t.date.date()
day_of(t) == <<t.date[1], t.date[2], t.date[3]>>

\* day_amount with a Transfer counted as what leaves its from_asset.
day_amount_with_transfers(t) ==
    IF t.type = REFILL THEN t.amount
    ELSE IF t.type \in {WASTE, TRANSFER} THEN 0 - t.amount
    ELSE 0

\* The amount a transaction adds to the total of its day.
day_amount(t) ==
    IF t.type = REFILL THEN t.amount
    ELSE IF t.type = WASTE THEN 0 - t.amount
    ELSE 0

\* The first loop of the transactions view: grouped, a dict, as the sequence
\* of its <<day, [transactions, day_total]>> items in insertion order.
RECURSIVE tx_group_loop(_, _)
tx_group_loop(list, grouped) ==
    IF list = <<>>
    THEN grouped
    ELSE LET t == Head(list)
             day == day_of(t)
             with_day == IF \E i \in 1..Len(grouped) : grouped[i][1] = day
                         THEN grouped
                         ELSE Append(grouped, <<day, [transactions |-> <<>>, day_total |-> 0]>>)
         IN  tx_group_loop(Tail(list),
                 [i \in 1..Len(with_day) |->
                     IF with_day[i][1] = day
                     THEN <<day, [transactions |-> Append(with_day[i][2].transactions, t),
                                  day_total |-> with_day[i][2].day_total + day_amount(t)]>>
                     ELSE with_day[i]])

\* The transactions of the days of grouped, one after another.
RECURSIVE grouped_transactions(_)
grouped_transactions(grouped) ==
    IF grouped = <<>> THEN <<>>
    ELSE Head(grouped)[2].transactions \o grouped_transactions(Tail(grouped))

\* tx_month_loop with the second branch an else: whatever is not a Refill is
\* counted as an expense.
RECURSIVE tx_month_loop_else_expense(_, _)
tx_month_loop_else_expense(list, acc) ==
    IF list = <<>>
    THEN acc
    ELSE LET t == Head(list)
         IN  tx_month_loop_else_expense(Tail(list),
                 IF t.type = REFILL
                 THEN [acc EXCEPT !.month_income = @ + t.amount]
                 ELSE [acc EXCEPT !.month_expense = @ + t.amount])

\* The second loop of the transactions view, from the state acc =
\* [month_income, month_expense].
RECURSIVE tx_month_loop(_, _)
tx_month_loop(list, acc) ==
    IF list = <<>>
    THEN acc
    ELSE LET t == Head(list)
         IN  tx_month_loop(Tail(list),
                 IF t.type = REFILL
                 THEN [acc EXCEPT !.month_income = @ + t.amount]
                 ELSE IF t.type = WASTE
                 THEN [acc EXCEPT !.month_expense = @ + t.amount]
                 ELSE acc)

\* The context the transactions view renders (the navigation links left
\* out), the Transaction table holding rows.
transactions_over(rows, user, year, month, asset_uuid) ==
    LET grouped == tx_group_loop(tx_transactions_list(rows, user, year, month, asset_uuid), <<>>)
        acc == tx_month_loop(grouped_transactions(grouped),
                             [month_income |-> 0, month_expense |-> 0])
    IN  [transactions_by_day |-> grouped,
         month_income |-> acc.month_income,
         month_expense |-> acc.month_expense,
         month_balance |-> acc.month_income - acc.month_expense]

\* transactions: the context rendered, or the exception raised (a response
\* of status 500).
transactions_view(user, year, month, asset_uuid) ==
    IF tx_dates_exc(year, month) # "none"
    THEN Raise(tx_dates_exc(year, month))
    ELSE Return([start_date |-> tx_start_date(year, month),
                 end_date |-> tx_end_date(year, month),
                 context |-> transactions_over(transactions, user, year, month, asset_uuid)])

(***************************************************************************)
(* finance/views.py: the handlers that change the store                    *)
(***************************************************************************)

\* uuid.uuid4() for a new row: an id no row of the table has.
new_id(rows) ==
    CHOOSE i \in 1..(Cardinality(rows) + 1) : \A r \in rows : r.id # i

\* Whether a foreign key value can be stored: null, or the id of an asset.
fk_ok(asset_id) == asset_id = None \/ \E a \in assets : a.id = asset_id

redirect(to) == [status |-> 302, to |-> to]

render(template) == [status |-> 200, to |-> template]

Http404 == [status |-> 404, to |-> ""]

\* An uncaught exception (here the IntegrityError of a foreign key that
\* names no asset): the request fails and stores nothing.
ServerError == [status |-> 500, to |-> ""]

\* The date a transaction form posts: date <<year, month, day>> and time
\* <<hour, minute>>, parsed with '%Y-%m-%d %H:%M' (the seconds are 0).
posted_date(POST) ==
    datetime(POST.date[1], POST.date[2], POST.date[3], POST.time[1], POST.time[2], 0)

\* transaction_add
transaction_add(user, method, POST) ==
    /\ IF method = "POST"
       THEN IF fk_ok(POST.from_asset) /\ fk_ok(POST.to_asset)
            THEN /\ transactions' = transactions \cup
                       {Transaction(new_id(transactions), user, POST.type,
                                    POST.amount, POST.currency, POST.from_asset,
                                    POST.to_asset, POST.category, posted_date(POST))}
                 /\ response' = redirect("transactions")
            ELSE /\ response' = ServerError
                 /\ UNCHANGED transactions
       ELSE /\ response' = render("transaction_form.html")
            /\ UNCHANGED transactions
    /\ UNCHANGED <<assets, now, call>>

\* get_transaction without the user: get_object_or_404(Transaction, pk=pk).
get_transaction_of_anyone(pk, user) == {t \in transactions : t.id = pk}

\* get_object_or_404(Transaction, pk=pk, user=request.user): the rows found
\* (none, or the one).
get_transaction(pk, user) == {t \in transactions : t.id = pk /\ t.user = user}

\* transaction_edit
transaction_edit(user, pk, method, POST) ==
    /\ IF get_transaction(pk, user) = {}
       THEN /\ response' = Http404
            /\ UNCHANGED transactions
       ELSE IF method = "POST"
       THEN IF fk_ok(POST.from_asset) /\ fk_ok(POST.to_asset)
            THEN /\ transactions' = (transactions \ get_transaction(pk, user)) \cup
                       {Transaction(pk, user, POST.type, POST.amount,
                                    POST.currency, POST.from_asset,
                                    POST.to_asset, POST.category, posted_date(POST))}
                 /\ response' = redirect("transactions")
            ELSE /\ response' = ServerError
                 /\ UNCHANGED transactions
       ELSE /\ response' = render("transaction_form.html")
            /\ UNCHANGED transactions
    /\ UNCHANGED <<assets, now, call>>

\* transaction_delete that deletes the user's transactions, not the one found.
transaction_delete_all(user, pk, method) ==
    /\ IF get_transaction(pk, user) = {}
       THEN /\ response' = Http404
            /\ UNCHANGED transactions
       ELSE IF method = "POST"
       THEN /\ transactions' = {t \in transactions : t.user # user}
            /\ response' = redirect("transactions")
       ELSE /\ response' = render("")
            /\ UNCHANGED transactions
    /\ UNCHANGED <<assets, now, call>>

\* transaction_delete
transaction_delete(user, pk, method) ==
    /\ IF get_transaction(pk, user) = {}
       THEN /\ response' = Http404
            /\ UNCHANGED transactions
       ELSE IF method = "POST"
       THEN /\ transactions' = transactions \ get_transaction(pk, user)
            /\ response' = redirect("transactions")
       ELSE /\ response' = render("")
            /\ UNCHANGED transactions
    /\ UNCHANGED <<assets, now, call>>

\* asset_add that records the initial balance whatever it is.
asset_add_always_recording(user, method, POST) ==
    /\ IF method = "POST"
       THEN LET asset == Asset(new_id(assets), user, POST.type, POST.currency, TRUE)
            IN  /\ assets' = assets \cup {asset}
                /\ transactions' = transactions \cup
                       {Transaction(new_id(transactions), user, CHANGING_BALANCE,
                                    POST.balance, POST.currency, None, asset.id,
                                    "", now)}
                /\ response' = redirect("assets")
       ELSE /\ response' = render("asset_form.html")
            /\ UNCHANGED <<assets, transactions>>
    /\ UNCHANGED <<now, call>>

\* asset_add
asset_add(user, method, POST) ==
    /\ IF method = "POST"
       THEN LET asset == Asset(new_id(assets), user, POST.type, POST.currency, TRUE)
            IN  /\ assets' = assets \cup {asset}
                /\ transactions' =
                       IF POST.balance > 0
                       THEN transactions \cup
                            {Transaction(new_id(transactions), user, CHANGING_BALANCE,
                                         POST.balance, POST.currency, None, asset.id,
                                         "", now)}
                       ELSE transactions
                /\ response' = redirect("assets")
       ELSE /\ response' = render("asset_form.html")
            /\ UNCHANGED <<assets, transactions>>
    /\ UNCHANGED <<now, call>>

\* get_object_or_404(Asset, pk=pk, user=request.user): the rows found (none,
\* or the one).
get_asset(pk, user) == {a \in assets : a.id = pk /\ a.user = user}

\* The amount as the column amount (decimal_places=2) stores it: rounded to
\* cents, a half to the even cent.  The amount is not negative.
decimal_places(amount) ==
    LET q == amount \div Cent
        r == amount % Cent
    IN  IF 2 * r > Cent \/ (2 * r = Cent /\ q % 2 = 1)
        THEN (q + 1) * Cent
        ELSE q * Cent

\* abs
abs(x) == IF x < 0 THEN 0 - x ELSE x

\* The rows with a PROTECT foreign key to the asset.
protected(pk) == {t \in transactions : t.from_asset = pk \/ t.to_asset = pk}

\* asset_edit: the balance is read (and may raise) before the method is
\* looked at; the correction is in the posted currency.
asset_edit(user, pk, method, POST) ==
    /\ IF get_asset(pk, user) = {}
       THEN /\ response' = Http404
            /\ UNCHANGED <<assets, transactions>>
       ELSE LET asset == CHOOSE a \in get_asset(pk, user) : TRUE
                current_balance == balance(asset)
                balance_diff == POST.balance - current_balance.val
            IN  IF current_balance.exc # "none"
                THEN /\ response' = ServerError
                     /\ UNCHANGED <<assets, transactions>>
                ELSE IF method = "POST"
                THEN /\ assets' = (assets \ {asset}) \cup
                            {[asset EXCEPT !.currency = POST.currency,
                                           !.is_active = POST.is_active]}
                     /\ transactions' =
                            IF POST.balance # current_balance.val
                            THEN transactions \cup
                                 {Transaction(new_id(transactions), user, CHANGING_BALANCE,
                                      decimal_places(abs(balance_diff)), POST.currency,
                                      IF balance_diff > 0 THEN None ELSE asset.id,
                                      IF balance_diff > 0 THEN asset.id ELSE None,
                                      "", now)}
                            ELSE transactions
                     /\ response' = redirect("assets")
                ELSE /\ response' = render("asset_form.html")
                     /\ UNCHANGED <<assets, transactions>>
    /\ UNCHANGED <<now, call>>

\* asset_delete with the foreign keys declared CASCADE: the transactions that
\* name the asset are deleted with it.
asset_delete_cascade(user, pk, method) ==
    /\ IF get_asset(pk, user) = {}
       THEN /\ response' = Http404
            /\ UNCHANGED <<assets, transactions>>
       ELSE IF method = "POST"
       THEN /\ assets' = assets \ get_asset(pk, user)
            /\ transactions' = transactions \ protected(pk)
            /\ response' = redirect("assets")
       ELSE /\ response' = render("")
            /\ UNCHANGED <<assets, transactions>>
    /\ UNCHANGED <<now, call>>

\* asset_delete: asset.delete() raises ProtectedError while a transaction
\* names the asset, and nothing is deleted.
asset_delete(user, pk, method) ==
    /\ IF get_asset(pk, user) = {}
       THEN /\ response' = Http404
            /\ UNCHANGED assets
       ELSE IF method = "POST"
       THEN IF protected(pk) # {}
            THEN /\ response' = ServerError
                 /\ UNCHANGED assets
            ELSE /\ assets' = assets \ get_asset(pk, user)
                 /\ response' = redirect("assets")
       ELSE /\ response' = render("")
            /\ UNCHANGED assets
    /\ UNCHANGED <<transactions, now, call>>

(***************************************************************************)
(* finance/views.py: assets                                                *)
(***************************************************************************)

\* AssetType.choices: value :> label
AssetType ==
    ("CASH" :> "Cash") @@
    ("DEBIT_CARD" :> "Debit Card") @@
    ("CREDIT_CARD" :> "Credit Card") @@
    ("DEPOSIT" :> "Deposit") @@
    ("SAVING_ACCOUNT" :> "Saving Account") @@
    ("BROKERAGE" :> "Brokerage Account")

\* get_asset_type_label: dict(AssetType.choices).get(name, "")
get_asset_type_label(name) ==
    IF name \in DOMAIN AssetType THEN AssetType[name] ELSE ""

\* The rows of a queryset of assets as the sequence its iteration yields.
\* created_at (Meta.ordering = ['-created_at']) is not kept: the rows are
\* taken by primary key, latest first.
RECURSIVE asset_ordering(_)
asset_ordering(rows) ==
    IF rows = {}
    THEN <<>>
    ELSE LET first == CHOOSE a \in rows : \A b \in rows : b.id <= a.id
         IN  <<first>> \o asset_ordering(rows \ {first})

\* assets_list with the inactive assets of the user in it.
assets_list_with_inactive(user) ==
    asset_ordering({a \in assets : a.user = user})

\* Asset.objects.filter(user=request.user, is_active=True)
assets_list(user) ==
    asset_ordering({a \in assets : a.user = user /\ a.is_active})

\* grouped[asset_type]['assets'].append(asset) and ['total'] += amount, the
\* dict grouped being the sequence of its <<key, value>> items.
grouped_add(grouped, asset_type, asset, amount) ==
    IF \E i \in 1..Len(grouped) : grouped[i][1] = asset_type
    THEN [i \in 1..Len(grouped) |->
             IF grouped[i][1] = asset_type
             THEN <<asset_type, [assets |-> Append(grouped[i][2].assets, asset),
                                 total |-> grouped[i][2].total + amount]>>
             ELSE grouped[i]]
    ELSE Append(grouped, <<asset_type, [assets |-> <<asset>>, total |-> amount]>>)

\* The loop of the assets view, from the state acc = [exc, grouped,
\* total_balance]; asset.balance may raise, which ends the request.
RECURSIVE assets_loop(_, _)
assets_loop(list, acc) ==
    IF list = <<>> \/ acc.exc # "none"
    THEN acc
    ELSE LET asset == Head(list)
             asset_type == get_asset_type_label(asset.type)
         IN  assets_loop(Tail(list),
                 IF balance(asset).exc # "none"
                 THEN [acc EXCEPT !.exc = balance(asset).exc]
                 ELSE [acc EXCEPT
                          !.grouped = grouped_add(@, asset_type, asset, balance(asset).val),
                          !.total_balance = @ + balance(asset).val])

\* The context the assets view renders: [exc, grouped (assets_by_type),
\* total_balance].
assets_view(user) ==
    assets_loop(assets_list(user),
                [exc |-> "none", grouped |-> <<>>, total_balance |-> 0])

(***************************************************************************)
(* The converter on its own: a call drawn from ConvertCalls, then applied. *)
(***************************************************************************)

Currencies == {"RUB", "USD", "EUR", "GBP"}

\* The calls checked: amounts of 0.01 to 150 between every pair of
\* currencies, and the conversions the tests of the repository make.
ConvertCalls ==
    ({Cent, Dec(1), Dec(100), Dec(150)} \X Currencies \X Currencies)
    \cup {<<Dec(1000), "RUB", "USD">>, <<Dec(1000), "RUB", "EUR">>}

Idle == [amount |-> 0, from_currency |-> "", to_currency |-> "",
         out |-> [exc |-> "idle", val |-> 0]]

Pending == [exc |-> "pending", val |-> 0]

Epoch == datetime(2024, 1, 1, 0, 0, 0)

InitConvert ==
    /\ assets = {}
    /\ transactions = {}
    /\ now = Epoch
    /\ response = render("")
    /\ \E c \in ConvertCalls :
           call = [amount |-> c[1], from_currency |-> c[2], to_currency |-> c[3],
                   out |-> Pending]

\* CurrencyConverter.convert(amount, from_currency, to_currency) is called.
Convert ==
    /\ call.out = Pending
    /\ call' = [call EXCEPT !.out = convert(call.amount, call.from_currency,
                                            call.to_currency)]
    /\ UNCHANGED <<assets, transactions, now, response>>

NextConvert == Convert

SpecConvert == InitConvert /\ [][NextConvert]_vars

(***************************************************************************)
(* The balance of an asset over a store built by transaction_add and       *)
(* transaction_delete.  One user holds three assets, created by asset_add  *)
(* with no initial balance: two in RUB and one in USD.                     *)
(***************************************************************************)

\* The most transactions a store holds.
MaxTx == 2

\* The instants a balance is asked at: one second before the earlier posted
\* date, that date, one second after it, and the later posted date.
T0 == datetime(2024, 2, 10, 11, 59, 59)

T1 == datetime(2024, 2, 10, 12, 0, 0)

T2 == datetime(2024, 2, 10, 12, 0, 1)

T3 == datetime(2024, 2, 11, 12, 0, 0)

BalanceTimes == {T0, T1, T2, T3}

\* The (from_asset, to_asset) pairs posted: into asset 1 from nowhere,
\* between the two RUB assets, and from a RUB asset to the USD asset.
BalanceEnds == {<<None, 1>>, <<1, 2>>, <<2, 3>>}

\* A form posted to transaction_add.
Post(type, amount, currency, ends, category, date, time) ==
    [type |-> type, amount |-> amount, currency |-> currency,
     from_asset |-> ends[1], to_asset |-> ends[2], category |-> category,
     date |-> date, time |-> time]

\* The forms posted to transaction_add: in RUB and USD, which convert into
\* each other, and a few in GBP, which converts into nothing.
BalancePosts ==
    {Post(type, amount, currency, ends, "", date, <<12, 0>>) :
        type \in {TRANSFER, CHANGING_BALANCE},
        amount \in {Dec(10), Dec(50)},
        currency \in {"RUB", "USD"},
        ends \in BalanceEnds,
        date \in {<<2024, 2, 10>>, <<2024, 2, 11>>}}
    \cup
    {Post(CHANGING_BALANCE, Dec(10), "GBP", ends, "", date, <<12, 0>>) :
        ends \in {<<None, 1>>, <<1, 2>>},
        date \in {<<2024, 2, 10>>, <<2024, 2, 11>>}}

InitBalance ==
    /\ assets = {Asset(1, "alice", "CASH", "RUB", TRUE),
                 Asset(2, "alice", "DEBIT_CARD", "RUB", TRUE),
                 Asset(3, "alice", "CASH", "USD", TRUE)}
    /\ transactions = {}
    /\ now = Epoch
    /\ response = redirect("assets")
    /\ call = Idle

NextBalance ==
    \/ \E POST \in BalancePosts :
           /\ Cardinality(transactions) < MaxTx
           /\ transaction_add("alice", "POST", POST)
    \/ \E t \in transactions : transaction_delete("alice", t.id, "POST")

SpecBalance == InitBalance /\ [][NextBalance]_vars

(***************************************************************************)
(* The statistics of a store built by transaction_add and                  *)
(* transaction_delete.  alice holds two RUB assets and bob one, created by *)
(* asset_add with no initial balance.                                      *)
(***************************************************************************)

\* The posted dates: the last minute of February 2024 and the first of March.
StatWhen == {<<<<2024, 2, 29>>, <<23, 59>>>>, <<<<2024, 3, 1>>, <<0, 0>>>>}

\* The type of a posted form with the assets and the categories it comes
\* with: a Refill into asset 1, a Waste out of it, a Transfer between alice's
\* assets, and a Changing-Balance either way.
StatKinds ==
    ({<<REFILL, <<None, 1>>>>} \X {"", "OTHER_REFILL", "SALARY"})
    \cup ({<<WASTE, <<1, None>>>>} \X {"", "OTHER_WASTE", "PRODUCTS"})
    \cup ({<<TRANSFER, <<1, 2>>>>} \X {""})
    \cup ({<<CHANGING_BALANCE, <<None, 1>>>>, <<CHANGING_BALANCE, <<1, None>>>>} \X {""})

\* The forms alice posts to transaction_add.
StatPosts ==
    {Post(kind[1][1], amount, "RUB", kind[1][2], kind[2], when[1], when[2]) :
        kind \in StatKinds,
        amount \in {Dec(2000), Dec(5000)},
        when \in StatWhen}

\* The forms bob posts: a Refill into his asset and a Waste out of it.
BobPosts ==
    {Post(REFILL, Dec(2000), "RUB", <<None, 3>>, "SALARY", <<2024, 2, 29>>, <<23, 59>>),
     Post(WASTE, Dec(2000), "RUB", <<3, None>>, "", <<2024, 2, 29>>, <<23, 59>>)}

\* The <<year, month>> the statistics are asked for: two months, the year,
\* and the URL without either (the month of now).
StatPeriods == {<<2024, 2>>, <<2024, 3>>, <<2024, None>>, <<None, None>>}

\* The instants a balance is asked at: the two posted dates.
StatTimes == {datetime(2024, 2, 29, 23, 59, 0), datetime(2024, 3, 1, 0, 0, 0)}

InitStats ==
    /\ assets = {Asset(1, "alice", "CASH", "RUB", TRUE),
                 Asset(2, "alice", "DEBIT_CARD", "RUB", TRUE),
                 Asset(3, "bob", "CASH", "RUB", TRUE)}
    /\ transactions = {}
    /\ now = datetime(2024, 2, 29, 23, 59, 30)
    /\ response = redirect("assets")
    /\ call = Idle

NextStats ==
    \/ \E POST \in StatPosts :
           /\ Cardinality(transactions) < MaxTx
           /\ transaction_add("alice", "POST", POST)
    \/ \E POST \in BobPosts :
           /\ Cardinality(transactions) < MaxTx
           /\ transaction_add("bob", "POST", POST)
    \/ \E t \in transactions : transaction_delete(t.user, t.id, "POST")

SpecStats == InitStats /\ [][NextStats]_vars

(***************************************************************************)
(* The statistics of two users who store transactions side by side.        *)
(***************************************************************************)

\* The forms alice posts: a Refill and a Waste, categorized or not, of 2000 or
\* 5000, on either side of the end of February 2024.
OwnPosts ==
    {Post(kind[1], amount, "RUB", kind[2], kind[3], when[1], when[2]) :
        kind \in {<<REFILL, <<None, 1>>, "SALARY">>, <<WASTE, <<1, None>>, "">>},
        amount \in {Dec(2000), Dec(5000)},
        when \in StatWhen}

InitOwn == InitStats

NextOwn ==
    \/ \E POST \in OwnPosts :
           /\ Cardinality(transactions) < MaxTx
           /\ transaction_add("alice", "POST", POST)
    \/ \E POST \in BobPosts :
           /\ Cardinality(transactions) < MaxTx
           /\ transaction_add("bob", "POST", POST)
    \/ \E t \in transactions : transaction_delete(t.user, t.id, "POST")

SpecOwn == InitOwn /\ [][NextOwn]_vars

(***************************************************************************)
(* Every handler that changes the store, from an empty store: alice adds,  *)
(* edits and deletes assets and transactions.                              *)
(***************************************************************************)

\* The most assets the store holds.
MaxAssets == 2

\* The largest balance correction recorded, in currency units.
MaxCorrection == 20

\* Whether asset_edit of the asset pk with the form POST records a correction
\* of more than MaxCorrection.
large_correction(pk, POST) ==
    \E a \in assets :
        /\ a.id = pk
        /\ balance(a).exc = "none"
        /\ abs(POST.balance - balance(a).val) > Dec(MaxCorrection)

\* The instant the requests are made at, after the one date posted.
ViewNow == datetime(2024, 2, 10, 12, 0, 30)

\* The forms posted to transaction_add and transaction_edit: a Refill, a Waste
\* and a Transfer between the first two assets, a Transfer that names no
\* asset, a Waste of a negative amount, and a Refill into a third asset.
ViewPosts ==
    {Post(kind[1], kind[2], "RUB", kind[3], "", <<2024, 2, 10>>, <<12, 0>>) :
        kind \in {<<REFILL, Dec(10), <<None, 1>>>>,
                  <<WASTE, Dec(10), <<1, None>>>>,
                  <<TRANSFER, Dec(10), <<1, 2>>>>,
                  <<TRANSFER, Dec(10), <<None, None>>>>,
                  <<WASTE, 0 - Dec(10), <<1, None>>>>,
                  <<REFILL, Dec(10), <<None, 3>>>>}}

\* The forms posted to asset_add and asset_edit.
AssetPosts ==
    {[type |-> "CASH", currency |-> "RUB", balance |-> b, is_active |-> TRUE] :
        b \in {0, Dec(10)}}

\* The primary keys a request may name: those in use and the next one.
Pks == 1..(MaxAssets + 1)

\* The primary keys of transactions a request may name.
TxPks == 1..(MaxTx + 1)

\* The forms bob posts with his requests.
BobForm == {Post(REFILL, Dec(10), "RUB", <<None, 1>>, "", <<2024, 2, 10>>, <<12, 0>>)}

BobAssetForm == {[type |-> "CASH", currency |-> "RUB", balance |-> 0, is_active |-> TRUE]}

InitViews ==
    /\ assets = {}
    /\ transactions = {}
    /\ now = ViewNow
    /\ response = redirect("assets")
    /\ call = Idle

NextViews ==
    \/ \E POST \in AssetPosts :
           /\ Cardinality(assets) < MaxAssets
           /\ Cardinality(transactions) < MaxTx
           /\ asset_add("alice", "POST", POST)
    \/ \E pk \in Pks, POST \in AssetPosts :
           /\ Cardinality(transactions) < MaxTx
           /\ ~large_correction(pk, POST)
           /\ asset_edit("alice", pk, "POST", POST)
    \/ \E pk \in Pks : asset_delete("alice", pk, "POST")
    \/ \E POST \in ViewPosts :
           /\ Cardinality(transactions) < MaxTx
           /\ transaction_add("alice", "POST", POST)
    \/ \E pk \in TxPks, POST \in ViewPosts : transaction_edit("alice", pk, "POST", POST)
    \/ \E pk \in TxPks : transaction_delete("alice", pk, "POST")

SpecViews == InitViews /\ [][NextViews]_vars

(***************************************************************************)
(* The requests of one user for the assets and transactions of another:    *)
(* alice builds a store, bob addresses what is in it.                      *)
(***************************************************************************)

\* The forms alice posts to transaction_add: a Refill into the first asset, a
\* Waste out of it and a Transfer to the second, of 10 or 50.
OthersPosts ==
    {Post(kind[1], amount, "RUB", kind[2], "", <<2024, 2, 10>>, <<12, 0>>) :
        kind \in {<<REFILL, <<None, 1>>>>, <<WASTE, <<1, None>>>>, <<TRANSFER, <<1, 2>>>>},
        amount \in {Dec(10), Dec(50)}}

InitOthers == InitViews

NextOthers ==
    \/ \E POST \in AssetPosts :
           /\ Cardinality(assets) < MaxAssets
           /\ Cardinality(transactions) < MaxTx
           /\ asset_add("alice", "POST", POST)
    \/ \E POST \in OthersPosts :
           /\ Cardinality(transactions) < MaxTx
           /\ transaction_add("alice", "POST", POST)
    \/ \E pk \in TxPks : transaction_delete("alice", pk, "POST")
    \/ \E pk \in Pks, method \in {"GET", "POST"}, POST \in BobAssetForm :
           asset_edit("bob", pk, method, POST)
    \/ \E pk \in Pks, method \in {"GET", "POST"} : asset_delete("bob", pk, method)
    \/ \E pk \in TxPks, method \in {"GET", "POST"}, POST \in BobForm :
           transaction_edit("bob", pk, method, POST)
    \/ \E pk \in TxPks, method \in {"GET", "POST"} : transaction_delete("bob", pk, method)

SpecOthers == InitOthers /\ [][NextOthers]_vars

(***************************************************************************)
(* asset_edit of one asset, with its currency among the posted fields,     *)
(* over the histories transaction_add and transaction_delete build.        *)
(***************************************************************************)

\* The forms posted to asset_edit: either currency, a balance of 0, 10 or 20.
EditForms ==
    {[type |-> "CASH", currency |-> c, balance |-> b, is_active |-> TRUE] :
        c \in {"RUB", "USD"}, b \in {0, Dec(10), Dec(20)}}

\* The forms posted to transaction_add: a Refill into the asset and a Waste
\* out of it, of 10 RUB, dated before the requests and a day after.
EditPosts ==
    {Post(kind[1], Dec(10), "RUB", kind[2], "", date, <<12, 0>>) :
        kind \in {<<REFILL, <<None, 1>>>>, <<WASTE, <<1, None>>>>},
        date \in {<<2024, 2, 10>>, <<2024, 2, 11>>}}

InitEdit ==
    /\ assets = {Asset(1, "alice", "CASH", "RUB", TRUE)}
    /\ transactions = {}
    /\ now = ViewNow
    /\ response = redirect("assets")
    /\ call = Idle

NextEdit ==
    \/ \E POST \in EditPosts :
           /\ Cardinality(transactions) < MaxTx
           /\ transaction_add("alice", "POST", POST)
    \/ \E t \in transactions : transaction_delete("alice", t.id, "POST")
    \/ \E POST \in EditForms :
           /\ Cardinality(transactions) < MaxTx
           /\ ~large_correction(1, POST)
           /\ asset_edit("alice", 1, "POST", POST)

SpecEdit == InitEdit /\ [][NextEdit]_vars

(***************************************************************************)
(* asset_add in either currency, with and without an initial balance, and  *)
(* the deletions that make room for more.                                  *)
(***************************************************************************)

\* The forms posted to asset_add: either currency, a balance of 0, 10 or 50.
AddForms ==
    {[type |-> "CASH", currency |-> c, balance |-> b, is_active |-> TRUE] :
        c \in {"RUB", "USD"}, b \in {0, Dec(10), Dec(50)}}

InitAdd == InitViews

NextAdd ==
    \/ \E POST \in AddForms :
           /\ Cardinality(assets) < MaxAssets
           /\ Cardinality(transactions) < MaxTx
           /\ asset_add("alice", "POST", POST)
    \/ \E pk \in Pks : asset_delete("alice", pk, "POST")
    \/ \E pk \in TxPks : transaction_delete("alice", pk, "POST")

SpecAdd == InitAdd /\ [][NextAdd]_vars

(***************************************************************************)
(* calculate_balance called with an explicit at_time, between the requests *)
(* that change the store.                                                  *)
(***************************************************************************)

\* The forms posted between the calls: 10 from asset 1 to asset 2 in RUB, and
\* corrections of 50 USD and 10 GBP into asset 1, on either date.
ReadPosts ==
    {Post(kind[1], kind[2], kind[3], kind[4], "", date, <<12, 0>>) :
        kind \in {<<TRANSFER, Dec(10), "RUB", <<1, 2>>>>,
                  <<CHANGING_BALANCE, Dec(50), "USD", <<None, 1>>>>,
                  <<CHANGING_BALANCE, Dec(10), "GBP", <<None, 1>>>>},
        date \in {<<2024, 2, 10>>, <<2024, 2, 11>>}}

\* The instants asked for: the first posted date and the second before it.
ReadTimes == {T0, T1}

\* A call of calculate_balance that folds what it counted into one
\* Changing-Balance row, as a stored balance with a checkpoint would.
calculate_balance_committing(pk, at_time) ==
    \E asset \in assets :
        /\ asset.id = pk
        /\ call' = [asset |-> pk, at_time |-> at_time,
                    out |-> calculate_balance(asset, at_time)]
        /\ transactions' =
               IF calculate_balance(asset, at_time).exc = "none"
                  /\ incoming_transactions(transactions, asset, at_time) # <<>>
               THEN {t \in transactions :
                        \/ pk \notin {t.from_asset, t.to_asset}
                        \/ ~date__lte(t.date, at_time)}
                    \cup {Transaction(new_id(transactions), asset.user, CHANGING_BALANCE,
                              calculate_balance(asset, at_time).val, asset.currency,
                              None, pk, "", at_time)}
               ELSE transactions
        /\ UNCHANGED <<assets, now, response>>

\* asset.calculate_balance(at_time) for the asset pk: the caller holds what it
\* returned or raised; nothing is written.
call_calculate_balance(pk, at_time) ==
    \E asset \in assets :
        /\ asset.id = pk
        /\ call' = [asset |-> pk, at_time |-> at_time,
                    out |-> calculate_balance(asset, at_time)]
        /\ UNCHANGED <<assets, transactions, now, response>>

InitRead == InitBalance

NextRead ==
    \/ \E POST \in ReadPosts :
           /\ Cardinality(transactions) < MaxTx
           /\ transaction_add("alice", "POST", POST)
    \/ \E t \in transactions : transaction_delete("alice", t.id, "POST")
    \/ \E pk \in 1..3, at_time \in ReadTimes : call_calculate_balance(pk, at_time)

SpecRead == InitRead /\ [][NextRead]_vars

(***************************************************************************)
(* Claims about CurrencyConverter.convert, under SpecConvert               *)
(***************************************************************************)

\* The call of convert has been made.
Converted == call.out.exc \notin {"idle", "pending"}

\* C6: convert(x, C, C) returns x unchanged and raises nothing, for every
\* amount x and every currency code C, also one the rate table never names.
C6_SameCurrencyUnchanged ==
    (Converted /\ call.from_currency = call.to_currency)
        => call.out = [exc |-> "none", val |-> call.amount]

\* GBP, which no entry of the table names, converted to GBP.
C6_Witness ==
    /\ Converted
    /\ call.from_currency = "GBP" /\ call.to_currency = "GBP"
    /\ call.amount = Dec(100)
    /\ call.out.val = Dec(100)

\* The ordered pairs the rate table of the specification lists.
ListedPairs ==
    {<<"RUB", "USD">>, <<"USD", "RUB">>, <<"RUB", "EUR">>,
     <<"EUR", "RUB">>, <<"USD", "EUR">>, <<"EUR", "USD">>}

\* C7: for distinct currencies with no entry in the rate table, convert
\* raises the error and returns no amount.
C7_MissingRateRaises ==
    (/\ Converted
     /\ call.from_currency # call.to_currency
     /\ <<call.from_currency, call.to_currency>> \notin ListedPairs)
        => call.out.exc = "ValueError"

\* 100 GBP to RUB, as in test_unsupported_conversion, has raised.
C7_Witness ==
    /\ Converted
    /\ call.from_currency = "GBP" /\ call.to_currency = "RUB"
    /\ call.amount = Dec(100)
    /\ call.out.exc = "ValueError"

\* The amount y is x times the rate of the pair, for the six listed rates.
IsProduct(y, x, from_currency, to_currency) ==
    CASE <<from_currency, to_currency>> = <<"RUB", "USD">> -> 1000 * y = 11 * x
      [] <<from_currency, to_currency>> = <<"USD", "RUB">> -> y = 90 * x
      [] <<from_currency, to_currency>> = <<"RUB", "EUR">> -> 100 * y = x
      [] <<from_currency, to_currency>> = <<"EUR", "RUB">> -> y = 100 * x
      [] <<from_currency, to_currency>> = <<"USD", "EUR">> -> 100 * y = 92 * x
      [] <<from_currency, to_currency>> = <<"EUR", "USD">> -> 100 * y = 109 * x
      [] OTHER -> FALSE

\* C8: for each of the six listed pairs convert returns the amount times the
\* rate of exactly that pair; convert(1000, RUB, USD) is 11 and
\* convert(100, EUR, USD) is 109.
C8_ListedRateApplied ==
    (Converted /\ <<call.from_currency, call.to_currency>> \in ListedPairs)
        => /\ call.out.exc = "none"
           /\ IsProduct(call.out.val, call.amount, call.from_currency, call.to_currency)
           /\ (call.amount = Dec(1000) /\ call.from_currency = "RUB"
                   /\ call.to_currency = "USD") => call.out.val = Dec(11)
           /\ (call.amount = Dec(100) /\ call.from_currency = "EUR"
                   /\ call.to_currency = "USD") => call.out.val = Dec(109)

\* 1000 RUB have been converted to 11 USD.
C8_Witness ==
    /\ Converted
    /\ call.amount = Dec(1000)
    /\ call.from_currency = "RUB" /\ call.to_currency = "USD"
    /\ call.out = [exc |-> "none", val |-> Dec(11)]

(***************************************************************************)
(* Claims about Asset.calculate_balance, under SpecBalance                 *)
(***************************************************************************)

\* The asset of the given id.
AssetOf(id) == CHOOSE a \in assets : a.id = id

\* The amount of transaction t expressed in currency cur, by the listed rates.
InCurrency(t, cur) ==
    CASE t.currency = cur -> t.amount
      [] t.currency = "RUB" /\ cur = "USD" -> (t.amount * 11) \div 1000
      [] t.currency = "USD" /\ cur = "RUB" -> t.amount * 90
      [] t.currency = "RUB" /\ cur = "EUR" -> t.amount \div 100
      [] t.currency = "EUR" /\ cur = "RUB" -> t.amount * 100
      [] t.currency = "USD" /\ cur = "EUR" -> (t.amount * 92) \div 100
      [] t.currency = "EUR" /\ cur = "USD" -> (t.amount * 109) \div 100

\* Whether t's currency is cur or has a listed rate to it.
Convertible(t, cur) ==
    t.currency = cur \/ <<t.currency, cur>> \in ListedPairs

\* The sum of the amounts of the transactions of S, in currency cur.
RECURSIVE SumIn(_, _)
SumIn(S, cur) ==
    IF S = {}
    THEN 0
    ELSE LET t == CHOOSE x \in S : TRUE
         IN  InCurrency(t, cur) + SumIn(S \ {t}, cur)

\* The transactions into and out of asset a dated no later than T.
InUpTo(a, T) == {t \in transactions : t.to_asset = a.id /\ ~before(T, t.date)}

OutUpTo(a, T) == {t \in transactions : t.from_asset = a.id /\ ~before(T, t.date)}

\* C1: for every asset A and instant T, calculate_balance(T) is the sum of the
\* amounts of the transactions into A dated <= T minus the sum of those out
\* of A dated <= T, each in A's currency by the table rate; the type of a
\* transaction plays no part.
C1_BalanceIsInMinusOut ==
    \A a \in assets : \A T \in BalanceTimes :
        (\A t \in InUpTo(a, T) \cup OutUpTo(a, T) : Convertible(t, a.currency))
            => calculate_balance(a, T) =
                   [exc |-> "none",
                    val |-> SumIn(InUpTo(a, T), a.currency)
                            - SumIn(OutUpTo(a, T), a.currency)]

\* The RUB asset 1 has received 50 USD and paid out 10 RUB: its balance is
\* 50 * 90 - 10 = 4490 RUB.
C1_Witness ==
    /\ \E t \in transactions :
           t.to_asset = 1 /\ t.currency = "USD" /\ t.amount = Dec(50)
    /\ \E t \in transactions :
           t.from_asset = 1 /\ t.currency = "RUB" /\ t.amount = Dec(10)
    /\ Cardinality(transactions) = 2
    /\ calculate_balance(AssetOf(1), T3) = [exc |-> "none", val |-> Dec(4490)]

\* The transactions into and out of asset a dated exactly at one of Dates.
InAt(a, Dates) == {t \in transactions : t.to_asset = a.id /\ t.date \in Dates}

OutAt(a, Dates) == {t \in transactions : t.from_asset = a.id /\ t.date \in Dates}

\* The net amount of the transactions of asset a dated at one of Dates.
NetAt(a, Dates) ==
    SumIn(InAt(a, Dates), a.currency) - SumIn(OutAt(a, Dates), a.currency)

ConvertibleAt(a, Dates) ==
    \A t \in InAt(a, Dates) \cup OutAt(a, Dates) : Convertible(t, a.currency)

\* C2: the bound at_time is inclusive.  Every transaction is dated T1 or T3;
\* T0 is one second before T1 and T2 one second after.  The balance at T0
\* counts nothing, the balances at T1 and at T2 count exactly the
\* transactions dated T1, and the balance at T3 counts them all.
C2_AtTimeInclusive ==
    \A a \in assets :
        /\ calculate_balance(a, T0) = [exc |-> "none", val |-> 0]
        /\ ConvertibleAt(a, {T1})
               => /\ calculate_balance(a, T1) = [exc |-> "none", val |-> NetAt(a, {T1})]
                  /\ calculate_balance(a, T2) = [exc |-> "none", val |-> NetAt(a, {T1})]
        /\ ConvertibleAt(a, {T1, T3})
               => calculate_balance(a, T3) = [exc |-> "none", val |-> NetAt(a, {T1, T3})]

\* Asset 1 has a transaction of 10 dated T1 and one of 50 dated T3: its
\* balance is 0 at T0, 10 at T1 and at T2, and 60 at T3.
C2_Witness ==
    /\ \E t \in transactions : t.to_asset = 1 /\ t.date = T1 /\ t.amount = Dec(10)
    /\ \E t \in transactions : t.to_asset = 1 /\ t.date = T3 /\ t.amount = Dec(50)
    /\ calculate_balance(AssetOf(1), T0).val = 0
    /\ calculate_balance(AssetOf(1), T1).val = Dec(10)
    /\ calculate_balance(AssetOf(1), T2).val = Dec(10)
    /\ calculate_balance(AssetOf(1), T3).val = Dec(60)

\* C5: adding a transaction leaves the balance, at every instant, of every
\* asset that is neither its from_asset nor its to_asset unchanged; adding a
\* Transfer of x from S to D, all in one currency, lowers the balance of S by
\* x and raises the balance of D by x at every instant from its date on.
C5_AddTouchesOnlyItsAssets ==
    [][\A t \in transactions' \ transactions :
          transactions' = transactions \cup {t} =>
              /\ \A a \in assets :
                     (a.id # t.from_asset /\ a.id # t.to_asset)
                         => \A T \in BalanceTimes :
                                balance_over(transactions', a, T) = calculate_balance(a, T)
              /\ \A S \in assets : \A D \in assets :
                     (/\ t.type = TRANSFER
                      /\ t.from_asset = S.id /\ t.to_asset = D.id /\ S.id # D.id
                      /\ t.currency = S.currency /\ t.currency = D.currency)
                         => \A T \in BalanceTimes :
                                (/\ ~before(T, t.date)
                                 /\ calculate_balance(S, T).exc = "none"
                                 /\ calculate_balance(D, T).exc = "none")
                                    => /\ balance_over(transactions', S, T) =
                                              [exc |-> "none",
                                               val |-> calculate_balance(S, T).val - t.amount]
                                       /\ balance_over(transactions', D, T) =
                                              [exc |-> "none",
                                               val |-> calculate_balance(D, T).val + t.amount]
      ]_vars

\* A Transfer of 50 RUB from asset 1 to asset 2 is stored beside a transaction
\* of 10 RUB from asset 2 into the third asset: the balances are -50 RUB,
\* 40 RUB and 0.11 USD.
C5_Witness ==
    /\ \E t \in transactions :
           /\ t.type = TRANSFER /\ t.from_asset = 1 /\ t.to_asset = 2
           /\ t.currency = "RUB" /\ t.amount = Dec(50)
    /\ \E t \in transactions :
           /\ t.from_asset = 2 /\ t.to_asset = 3
           /\ t.currency = "RUB" /\ t.amount = Dec(10)
    /\ calculate_balance(AssetOf(1), T3) = [exc |-> "none", val |-> -Dec(50)]
    /\ calculate_balance(AssetOf(2), T3) = [exc |-> "none", val |-> Dec(40)]
    /\ calculate_balance(AssetOf(3), T3) = [exc |-> "none", val |-> 11 * Cent]

\* C9: calculate_balance(T) fails with the conversion error exactly when a
\* transaction into or out of the asset dated <= T has a currency that differs
\* from the asset's and has no listed rate to it; such a transaction dated
\* after T does not make it fail.
C9_UnconvertibleRaises ==
    \A a \in assets : \A T \in BalanceTimes :
        calculate_balance(a, T).exc = "ValueError"
            <=> \E t \in InUpTo(a, T) \cup OutUpTo(a, T) : ~Convertible(t, a.currency)

\* Asset 1 (RUB) has paid out GBP on T3: its balance can be computed at T1 and
\* fails at T3, as does the balance of asset 2 (RUB), which received them.
C9_Witness ==
    /\ \E t \in transactions :
           t.from_asset = 1 /\ t.currency = "GBP" /\ t.date = T3
    /\ calculate_balance(AssetOf(1), T1).exc = "none"
    /\ calculate_balance(AssetOf(1), T3).exc = "ValueError"
    /\ calculate_balance(AssetOf(2), T3).exc = "ValueError"

(***************************************************************************)
(* Claims about the statistics view, under SpecStats                       *)
(***************************************************************************)

Users == {"alice", "bob"}

\* Whether t is dated in the period p = <<year, month>>, read off the
\* calendar fields of its date.
InPeriod(t, p) ==
    LET y == IF p[1] = None THEN now[1] ELSE p[1]
        m == IF p[1] = None THEN now[2] ELSE p[2]
    IN  t.date[1] = y /\ (m = None \/ t.date[2] = m)

\* The transactions of a user of one type dated in the period.
Of(user, type, p) ==
    {t \in transactions : t.user = user /\ t.type = type /\ InPeriod(t, p)}

\* The sum of the amounts of a set of transactions.
RECURSIVE Total(_)
Total(S) ==
    IF S = {} THEN 0
    ELSE LET t == CHOOSE x \in S : TRUE IN t.amount + Total(S \ {t})

\* The sum of the amounts of the rows of income_data or outcome_data.
RECURSIVE SumRows(_)
SumRows(data) ==
    IF data = <<>> THEN 0 ELSE Head(data).amount + SumRows(Tail(data))

\* The transactions of S are spread over the rows of data: each in exactly
\* one row, those of one category in the same row, no row empty, and the
\* amount of a row the sum of its transactions.
Grouped(S, data) ==
    /\ \A i, j \in 1..Len(data) : data[i].category = data[j].category => i = j
    /\ \E f \in [S -> 1..Len(data)] :
           /\ \A t1, t2 \in S : t1.category = t2.category => f[t1] = f[t2]
           /\ \A i \in 1..Len(data) :
                  /\ \E t \in S : f[t] = i
                  /\ data[i].amount = Total({t \in S : f[t] = i})

\* C4: over a user's transactions dated in the period, every Refill adds its
\* amount to exactly one income group and to total_income, every Waste to
\* exactly one expense group and to total_outcome, a Transfer to neither; the
\* group amounts of a direction sum to its total.
C4_RefillsAndWastesAggregated ==
    \A user \in Users, p \in StatPeriods :
        LET s == statistics(user, p[1], p[2])
        IN  /\ s.total_income = Total(Of(user, REFILL, p))
            /\ s.total_outcome = Total(Of(user, WASTE, p))
            /\ Grouped(Of(user, REFILL, p), s.income_data)
            /\ Grouped(Of(user, WASTE, p), s.outcome_data)
            /\ SumRows(s.income_data) = s.total_income
            /\ SumRows(s.outcome_data) = s.total_outcome

\* A Refill of 2000 and a Transfer in February 2024: the income is the one
\* group of 2000 and there is no expense.
C4_Witness ==
    /\ \E r \in Of("alice", REFILL, <<2024, 2>>) : r.amount = Dec(2000)
    /\ Of("alice", TRANSFER, <<2024, 2>>) # {}
    /\ Cardinality(transactions) = 2
    /\ LET s == statistics("alice", 2024, 2)
       IN  /\ s.total_income = Dec(2000)
           /\ Len(s.income_data) = 1
           /\ s.income_data[1].amount = Dec(2000)
           /\ s.total_outcome = 0
           /\ s.outcome_data = <<>>

\* t with the type of the ordinary transaction of its direction.
Retyped(t) == [t EXCEPT !.type = IF t.to_asset # None THEN REFILL ELSE WASTE]

\* C3: a Changing-Balance transaction changes the balance of its asset as a
\* Refill (to_asset) or a Waste (from_asset) does, and adds nothing to the
\* statistics: with a Changing-Balance of 5000 and a Refill of 2000 to one
\* asset in one period, the period's income is 2000 and the balance 7000.
C3_ChangingBalanceOutsideStatistics ==
    /\ \A t \in transactions :
           t.type = CHANGING_BALANCE =>
               LET rest == transactions \ {t}
               IN  /\ \A user \in Users, p \in StatPeriods :
                          statistics_over(rest, user, p[1], p[2])
                              = statistics(user, p[1], p[2])
                   /\ \A a \in assets, T \in StatTimes :
                          LET with == calculate_balance(a, T)
                              without == balance_over(rest, a, T)
                              counted == ~before(T, t.date)
                          IN  /\ with.exc = "none"
                              /\ with.val = without.val
                                     + (IF t.to_asset = a.id /\ counted THEN t.amount ELSE 0)
                                     - (IF t.from_asset = a.id /\ counted THEN t.amount ELSE 0)
                              /\ with = balance_over(rest \cup {Retyped(t)}, a, T)
    /\ \A c, r \in transactions :
           (/\ transactions = {c, r}
            /\ c.type = CHANGING_BALANCE /\ c.amount = Dec(5000) /\ c.to_asset = 1
            /\ r.type = REFILL /\ r.amount = Dec(2000) /\ r.to_asset = 1
            /\ InPeriod(c, <<2024, 2>>) /\ InPeriod(r, <<2024, 2>>))
           => /\ statistics("alice", 2024, 2).total_income = Dec(2000)
              /\ balance(AssetOf(1)) = Return(Dec(7000))

\* The store of the example: the income of February is 2000, the balance of
\* asset 1 is 7000.
C3_Witness ==
    /\ \E c, r \in transactions :
           /\ transactions = {c, r}
           /\ c.type = CHANGING_BALANCE /\ c.amount = Dec(5000) /\ c.to_asset = 1
           /\ r.type = REFILL /\ r.amount = Dec(2000) /\ r.to_asset = 1
           /\ InPeriod(c, <<2024, 2>>) /\ InPeriod(r, <<2024, 2>>)
    /\ statistics("alice", 2024, 2).total_income = Dec(2000)
    /\ Len(statistics("alice", 2024, 2).income_data) = 1
    /\ balance(AssetOf(1)) = Return(Dec(7000))

\* C10 as stated: a Waste with an empty category is in a group apart from
\* the Wastes categorized OTHER_WASTE (a Refill likewise, OTHER_REFILL), so
\* that a direction has one group per category value, the empty one counted:
\* an uncategorized Waste and an OTHER_WASTE one make two expense groups.
C10_UncategorizedKeptApart ==
    \A user \in Users, p \in StatPeriods :
        LET s == statistics(user, p[1], p[2])
        IN  /\ Len(s.outcome_data) = Cardinality({t.category : t \in Of(user, WASTE, p)})
            /\ Len(s.income_data) = Cardinality({t.category : t \in Of(user, REFILL, p)})

\* The transactions of S that are uncategorized or categorized other.
Others(S, other) == {t \in S : t.category \in {"", other}}

\* The categories of S, the empty one read as other.
Categories(S, other) == {IF t.category = "" THEN other ELSE t.category : t \in S}

\* The rows of data labelled label.
Labelled(data, label) == {i \in 1..Len(data) : data[i].category = label}

\* C10 (amended): a Waste with an empty category is added to the group of the
\* Wastes categorized OTHER_WASTE, shown as 'Other waste' (a Refill likewise,
\* OTHER_REFILL, 'Other refill'): an uncategorized Waste and an OTHER_WASTE
\* one in the same period make one expense group, of the sum of both.
C10_UncategorizedJoinsOther ==
    \A user \in Users, p \in StatPeriods :
        LET s == statistics(user, p[1], p[2])
            W == Of(user, WASTE, p)
            R == Of(user, REFILL, p)
        IN  /\ Len(s.outcome_data) = Cardinality(Categories(W, "OTHER_WASTE"))
            /\ Len(s.income_data) = Cardinality(Categories(R, "OTHER_REFILL"))
            /\ Others(W, "OTHER_WASTE") # {} =>
                   /\ Cardinality(Labelled(s.outcome_data, "Other waste")) = 1
                   /\ \A i \in Labelled(s.outcome_data, "Other waste") :
                          s.outcome_data[i].amount = Total(Others(W, "OTHER_WASTE"))
            /\ Others(R, "OTHER_REFILL") # {} =>
                   /\ Cardinality(Labelled(s.income_data, "Other refill")) = 1
                   /\ \A i \in Labelled(s.income_data, "Other refill") :
                          s.income_data[i].amount = Total(Others(R, "OTHER_REFILL"))

\* An uncategorized Waste of 2000 and an OTHER_WASTE one of 5000 in February
\* 2024: the one expense group 'Other waste' of 7000.
C10_Witness ==
    /\ \E t1, t2 \in Of("alice", WASTE, <<2024, 2>>) :
           /\ t1.category = "" /\ t1.amount = Dec(2000)
           /\ t2.category = "OTHER_WASTE" /\ t2.amount = Dec(5000)
    /\ LET s == statistics("alice", 2024, 2)
       IN  /\ Len(s.outcome_data) = 1
           /\ s.outcome_data[1].category = "Other waste"
           /\ s.outcome_data[1].amount = Dec(7000)
           /\ s.total_outcome = Dec(7000)

(***************************************************************************)
(* Claims about the handlers, under SpecViews                              *)
(***************************************************************************)

\* Whether the foreign keys of t name assets of the table holding rows.
Referenced(t, rows) ==
    \A id \in {t.from_asset, t.to_asset} \ {None} : \E a \in rows : a.id = id

\* C11: an asset goes only when no transaction names it: asset_delete (POST)
\* of an asset some transaction names fails and leaves the assets and the
\* transactions as they are, it deletes the asset that none names, and after
\* every step the assets a transaction names exist.
C11_ReferencedAssetNotDeleted ==
    [][/\ \A t \in transactions' : Referenced(t, assets')
       /\ \A a \in assets :
              (\A b \in assets' : b.id # a.id) =>
                  /\ \A t \in transactions : a.id \notin {t.from_asset, t.to_asset}
                  /\ transactions' = transactions
       /\ \A pk \in Pks :
              (asset_delete("alice", pk, "POST") /\ get_asset(pk, "alice") # {}) =>
                  IF \E t \in transactions : pk \in {t.from_asset, t.to_asset}
                  THEN /\ response'.status = 500
                       /\ assets' = assets
                       /\ transactions' = transactions
                  ELSE /\ response' = redirect("assets")
                       /\ assets' = {a \in assets : a.id # pk}
                       /\ transactions' = transactions]_vars

\* The first asset has been deleted; the second, which a transaction names,
\* is in place.
C11_Witness ==
    /\ response = redirect("assets")
    /\ \A a \in assets : a.id = 2
    /\ \E t \in transactions : 2 \in {t.from_asset, t.to_asset}
    /\ \A t \in transactions : Referenced(t, assets)

\* C12: every stored Waste has a from_asset and no to_asset, every stored
\* Refill a to_asset and no from_asset, every stored Transfer both.
C12_EndpointsFollowType ==
    \A t \in transactions :
        /\ t.type = WASTE => t.from_asset # None /\ t.to_asset = None
        /\ t.type = REFILL => t.to_asset # None /\ t.from_asset = None
        /\ t.type = TRANSFER => t.from_asset # None /\ t.to_asset # None

\* C13: every stored amount is a positive magnitude.
C13_AmountPositive == \A t \in transactions : t.amount > 0

\* The instants a balance is asked at: before the posted date, at it, and
\* when the requests are made.
ViewTimes == {datetime(2024, 2, 10, 11, 59, 0), datetime(2024, 2, 10, 12, 0, 0), ViewNow}

\* What t adds to the balance of the asset a at T when it is counted as an
\* incoming transaction, and as an outgoing one.
CountedIn(t, a, T) == IF t.to_asset = a.id /\ ~before(T, t.date) THEN t.amount ELSE 0

CountedOut(t, a, T) == IF t.from_asset = a.id /\ ~before(T, t.date) THEN t.amount ELSE 0

\* C15: calculate_balance tolerates null endpoints: a transaction with no
\* from_asset is in no asset's outgoing sum, one with no to_asset in no asset's
\* incoming sum, one with neither changes no balance, and calculate_balance
\* does not fail on them.
C15_NullEndpointsTolerated ==
    \A a \in assets, T \in ViewTimes :
        /\ calculate_balance(a, T).exc = "none"
        /\ \A t \in transactions :
               LET with == calculate_balance(a, T).val
                   without == balance_over(transactions \ {t}, a, T).val
               IN  /\ t.from_asset = None => with - without = CountedIn(t, a, T)
                   /\ t.to_asset = None => with - without = 0 - CountedOut(t, a, T)
                   /\ (t.from_asset = None /\ t.to_asset = None) => with = without

\* A Transfer that names no asset next to a Refill of 10 into asset 1, whose
\* balance is 10.
C15_Witness ==
    /\ \E t \in transactions : t.from_asset = None /\ t.to_asset = None
    /\ \E t \in transactions : t.from_asset = None /\ t.to_asset = 1 /\ t.type = REFILL
    /\ \E a \in assets : a.id = 1 /\ balance(a) = Return(Dec(10))

(***************************************************************************)
(* Claims about calculate_balance as a read, under SpecRead                *)
(***************************************************************************)

\* Whether the caller holds the outcome of a call of calculate_balance.
Called(c) == "asset" \in DOMAIN c

Signed(t, a) ==
    (IF t.to_asset = a.id THEN InCurrency(t, a.currency) ELSE 0)
    - (IF t.from_asset = a.id THEN InCurrency(t, a.currency) ELSE 0)

\* C16: transaction_delete (POST) removes the one transaction and nothing
\* else: the assets and the other transactions stay, the balances of its
\* from_asset and to_asset lose its converted amount, every other balance is
\* as before.
C16_DeleteRemovesOnlyTheRow ==
    [][\A pk \in TxPks :
          (transaction_delete("alice", pk, "POST") /\ get_transaction(pk, "alice") # {}) =>
              \A t \in get_transaction(pk, "alice") :
                  /\ transactions' = transactions \ {t}
                  /\ assets' = assets
                  /\ \A a \in assets, T \in BalanceTimes :
                         LET was == calculate_balance(a, T)
                             is == balance_over(transactions', a, T)
                         IN  IF a.id \in {t.from_asset, t.to_asset} /\ ~before(T, t.date)
                             THEN (is.exc = "none" /\ Convertible(t, a.currency))
                                      => was = Return(is.val + Signed(t, a))
                             ELSE is = was]_vars

\* The first transaction stored has been deleted; the correction of 50 USD
\* stored second is in place, and asset 1 holds 4500 RUB.
C16_Witness ==
    /\ response = redirect("transactions")
    /\ \E t \in transactions :
           /\ transactions = {t}
           /\ t.id = 2 /\ t.currency = "USD" /\ t.to_asset = 1 /\ t.date = T1
    /\ balance_over(transactions, AssetOf(1), T1) = Return(Dec(4500))

(***************************************************************************)
(* Claims about asset_edit, under SpecEdit                                 *)
(***************************************************************************)

\* C17: after an asset_edit POST with the balance B the balance of the asset
\* is B, whatever its transactions, whatever B and whether or not the POST
\* changes the currency; the difference is one Changing-Balance transaction
\* and no transaction that was there is changed.
C17_EditSetsBalance ==
    [][\A POST \in EditForms :
          (asset_edit("alice", 1, "POST", POST) /\ response' = redirect("assets")) =>
              /\ \A a \in assets' :
                     a.id = 1 => balance_over(transactions', a, now) = Return(POST.balance)
              /\ transactions \subseteq transactions'
              /\ Cardinality(transactions' \ transactions) <= 1
              /\ \A t \in transactions' \ transactions : t.type = CHANGING_BALANCE]_vars

(***************************************************************************)
(* Claims about asset_add, under SpecAdd                                   *)
(***************************************************************************)

\* C18: after an asset_add POST with the initial balance B >= 0 the balance
\* of the new asset is B: for B > 0 one Changing-Balance transaction of B in
\* the asset's currency into the new asset is created, for B = 0 none.
C18_AddSetsInitialBalance ==
    [][\A POST \in AddForms :
          asset_add("alice", "POST", POST) =>
              \E a \in assets' \ assets :
                  /\ assets' = assets \cup {a}
                  /\ a.currency = POST.currency
                  /\ balance_over(transactions', a, now) = Return(POST.balance)
                  /\ IF POST.balance > 0
                     THEN \E t \in transactions' \ transactions :
                              /\ transactions' = transactions \cup {t}
                              /\ t.type = CHANGING_BALANCE
                              /\ t.amount = POST.balance
                              /\ t.currency = a.currency
                              /\ t.to_asset = a.id
                              /\ t.from_asset = None
                     ELSE transactions' = transactions]_vars

\* Two assets: one in RUB added with no balance and no transaction, one in
\* USD added with 50, its balance, in one correction.
C18_Witness ==
    /\ response = redirect("assets")
    /\ \E a, b \in assets :
           /\ a.currency = "RUB" /\ balance(a) = Return(0)
           /\ b.currency = "USD" /\ balance(b) = Return(Dec(50))
           /\ \E t \in transactions :
                  /\ transactions = {t}
                  /\ t.type = CHANGING_BALANCE /\ t.to_asset = b.id
                  /\ t.amount = Dec(50) /\ t.currency = "USD"

(***************************************************************************)
(* Claims about the statistics of one user among others, under SpecOwn     *)
(***************************************************************************)

\* Transactions another user than user might have stored: a Refill and an
\* uncategorized Waste in February 2024, a Refill in March.
Foreign(user) ==
    LET other == IF user = "alice" THEN "bob" ELSE "alice"
    IN  {Transaction(7, other, REFILL, Dec(5000), "RUB", None, 3, "SALARY",
                     datetime(2024, 2, 29, 23, 59, 0)),
         Transaction(8, other, WASTE, Dec(2000), "RUB", 3, None, "",
                     datetime(2024, 2, 29, 23, 59, 0)),
         Transaction(9, other, REFILL, Dec(2000), "RUB", None, 3, "OTHER_REFILL",
                     datetime(2024, 3, 1, 0, 0, 0))}

\* C20: the statistics of a user depend on the user's own transactions only:
\* stores that hold the same transactions of the user and any transactions of
\* others give the same groups, amounts, percents and totals.
C20_StatisticsOfOwnTransactions ==
    \A user \in Users, p \in StatPeriods :
        \A others \in SUBSET Foreign(user) :
            statistics_over({t \in transactions : t.user = user} \cup others,
                            user, p[1], p[2])
                = statistics(user, p[1], p[2])

\* alice's Refill of 5000 and bob's of 2000, both in February 2024: her income
\* is 5000 and his 2000.
C20_Witness ==
    /\ \E t \in Of("alice", REFILL, <<2024, 2>>) : t.amount = Dec(5000)
    /\ \E t \in Of("bob", REFILL, <<2024, 2>>) : t.amount = Dec(2000)
    /\ statistics("alice", 2024, 2).total_income = Dec(5000)
    /\ statistics("bob", 2024, 2).total_income = Dec(2000)
    /\ Len(statistics("alice", 2024, 2).income_data) = 1

(***************************************************************************)
(* Claims about requests for another user's objects, under SpecOthers      *)
(***************************************************************************)

\* The response, the assets and the transactions after a request that found
\* nothing.
NotFound ==
    /\ response' = Http404
    /\ assets' = assets
    /\ transactions' = transactions

\* C19: transaction_edit, transaction_delete, asset_edit and asset_delete for
\* a transaction or an asset of another user answer 404, to GET and to POST,
\* and leave every asset and every transaction as it was.
C19_OthersObjectsNotFound ==
    [][\A method \in {"GET", "POST"} :
          /\ \A t \in transactions :
                 t.user # "bob" =>
                     /\ \A POST \in BobForm :
                            transaction_edit("bob", t.id, method, POST) => NotFound
                     /\ transaction_delete("bob", t.id, method) => NotFound
          /\ \A a \in assets :
                 a.user # "bob" =>
                     /\ \A POST \in BobAssetForm :
                            asset_edit("bob", a.id, method, POST) => NotFound
                     /\ asset_delete("bob", a.id, method) => NotFound]_vars

\* A request was answered 404 while alice has two assets, one with no
\* transaction, and two transactions.
C19_Witness ==
    /\ response = Http404
    /\ \E a \in assets : a.user = "alice" /\ a.id = 2 /\ protected(2) = {}
    /\ \E a \in assets : a.user = "alice" /\ a.id = 1
    /\ \E t \in transactions : t.user = "alice" /\ t.id = 2
    /\ \E t \in transactions : t.user = "alice" /\ t.id = 1

(***************************************************************************)
(* The percentages of the statistics view.  The forms posted carry small   *)
(* amounts, an amount of 0 among them (no handler checks the amount), so   *)
(* that a direction can have groups and a total of 0.                      *)
(***************************************************************************)

\* The forms alice posts: Refills of two categories, Wastes of one category
\* and of none, of 0, 1 or 3, on either side of the end of February 2024.
PercentPosts ==
    {Post(kind[1], amount, "RUB", kind[2], kind[3], when[1], when[2]) :
        kind \in {<<REFILL, <<None, 1>>, "SALARY">>,
                  <<REFILL, <<None, 1>>, "BONUS">>,
                  <<WASTE, <<1, None>>, "">>,
                  <<WASTE, <<1, None>>, "PRODUCTS">>},
        amount \in {0, Dec(1), Dec(3)},
        when \in StatWhen}

InitPercent == InitStats

NextPercent ==
    \/ \E POST \in PercentPosts :
           /\ Cardinality(transactions) < MaxTx
           /\ transaction_add("alice", "POST", POST)
    \/ \E t \in transactions : transaction_delete("alice", t.id, "POST")

SpecPercent == InitPercent /\ [][NextPercent]_vars

\* The percent of every row of data is well defined (no division by zero);
\* it is amount / total * 100 while the total is positive, and 0 otherwise.
Percents(data, total) ==
    \A i \in 1..Len(data) :
        LET percent == data[i].percent
        IN  /\ percent[2] # 0
            /\ IF total > 0
               THEN percent[1] * (total \div Cent)
                        = (data[i].amount \div Cent) * 100 * percent[2]
               ELSE percent[1] = 0

\* The sum of the percents of the rows of data, in units of 1 / den.
RECURSIVE SumPercents(_, _)
SumPercents(data, den) ==
    IF data = <<>> THEN 0
    ELSE (Head(data).percent[1] * den) \div Head(data).percent[2]
             + SumPercents(Tail(data), den)

\* C21: the percent of each group is its amount / the total of its direction
\* * 100 whenever that total is greater than 0 (the percents of a direction
\* then add up to 100), and nothing is divided by zero: a direction with no
\* transaction in the window has no groups and a total of 0.
C21_PercentOfDirectionTotal ==
    \A user \in Users, p \in StatPeriods :
        LET s == statistics(user, p[1], p[2])
        IN  /\ Percents(s.income_data, s.total_income)
            /\ Percents(s.outcome_data, s.total_outcome)
            /\ s.total_income > 0 =>
                   SumPercents(s.income_data, s.total_income \div Cent)
                       = 100 * (s.total_income \div Cent)
            /\ s.total_outcome > 0 =>
                   SumPercents(s.outcome_data, s.total_outcome \div Cent)
                       = 100 * (s.total_outcome \div Cent)
            /\ Of(user, REFILL, p) = {} =>
                   s.income_data = <<>> /\ s.total_income = 0
            /\ Of(user, WASTE, p) = {} =>
                   s.outcome_data = <<>> /\ s.total_outcome = 0

\* Salary 3 and Bonus 1 in February 2024 and no Waste: 75 and 25 percent of
\* the income, and no expense group.
C21_Witness ==
    /\ \E t1, t2 \in Of("alice", REFILL, <<2024, 2>>) :
           /\ t1.category = "SALARY" /\ t1.amount = Dec(3)
           /\ t2.category = "BONUS" /\ t2.amount = Dec(1)
    /\ LET s == statistics("alice", 2024, 2)
       IN  /\ Len(s.income_data) = 2
           /\ s.income_data[1].percent[1] = 75 * s.income_data[1].percent[2]
           /\ s.income_data[2].percent[1] = 25 * s.income_data[2].percent[2]
           /\ s.outcome_data = <<>>
           /\ s.total_outcome = 0

\* The place in the iteration of the selected transactions at which a
\* transaction of the type and of the group labelled label comes first.
FirstSeen(list, type, label) ==
    CHOOSE k \in 1..Len(list) :
        LET Member(t) == /\ t.type = type
                         /\ format_category(IF type = REFILL THEN refill_cat(t)
                                                              ELSE waste_cat(t)) = label
        IN  /\ Member(list[k])
            /\ \A j \in 1..(k - 1) : ~Member(list[j])

\* The rows of data are in descending order of amount, rows of equal amount
\* in the order their categories are first met in list.
Ranked(data, list, type) ==
    \A i, j \in 1..Len(data) :
        i < j =>
            /\ data[i].amount >= data[j].amount
            /\ data[i].amount = data[j].amount =>
                   FirstSeen(list, type, data[i].category)
                       < FirstSeen(list, type, data[j].category)

\* C23: the groups of each direction are ordered by amount descending, and
\* groups of equal amount keep the order in which their category is first
\* met while iterating the selected transactions.
C23_GroupsByAmountDescending ==
    \A user \in Users, p \in StatPeriods :
        LET s == statistics(user, p[1], p[2])
            list == stat_transactions_list(transactions, user, p[1], p[2])
        IN  /\ Ranked(s.income_data, list, REFILL)
            /\ Ranked(s.outcome_data, list, WASTE)

\* In 2024 a Bonus of 3 on March 1 and a Salary of 3 on February 29: the
\* transactions are iterated latest first, so Bonus is the first group of the
\* two equal ones.
C23_Witness ==
    /\ \E t1, t2 \in Of("alice", REFILL, <<2024, None>>) :
           /\ t1.category = "BONUS" /\ t1.amount = Dec(3) /\ t1.date[2] = 3
           /\ t2.category = "SALARY" /\ t2.amount = Dec(3) /\ t2.date[2] = 2
    /\ LET s == statistics("alice", 2024, None)
       IN  /\ Len(s.income_data) = 2
           /\ s.income_data[1].category = "Bonus"
           /\ s.income_data[2].category = "Salary"
           /\ s.income_data[1].amount = s.income_data[2].amount

(***************************************************************************)
(* The assets view over the assets of two users: alice adds assets of two  *)
(* types, with an initial balance, and edits them active or inactive; bob  *)
(* adds an asset of his own.                                               *)
(***************************************************************************)

\* The forms alice posts to asset_add.
ListForms ==
    {[type |-> type, currency |-> "RUB", balance |-> b, is_active |-> TRUE] :
        type \in {"CASH", "DEBIT_CARD"}, b \in {Dec(10), Dec(50)}}

\* The forms alice posts to asset_edit: the balance 10, active or not.
ActiveForms ==
    {[type |-> "CASH", currency |-> "RUB", balance |-> Dec(10), is_active |-> active] :
        active \in {TRUE, FALSE}}

\* The form bob posts to asset_add.
BobListForm ==
    {[type |-> "CASH", currency |-> "RUB", balance |-> Dec(50), is_active |-> TRUE]}

InitList == InitViews

NextList ==
    \/ \E POST \in ListForms :
           /\ Cardinality(assets) < MaxAssets + 1
           /\ Cardinality(transactions) < MaxTx + 1
           /\ asset_add("alice", "POST", POST)
    \/ \E POST \in BobListForm :
           /\ Cardinality(assets) < MaxAssets + 1
           /\ Cardinality(transactions) < MaxTx + 1
           /\ asset_add("bob", "POST", POST)
    \/ \E pk \in Pks, POST \in ActiveForms :
           /\ Cardinality(transactions) < MaxTx + 1
           /\ asset_edit("alice", pk, "POST", POST)

SpecList == InitList /\ [][NextList]_vars

\* The sum of the balances of a set of assets.
RECURSIVE SumBalances(_)
SumBalances(S) ==
    IF S = {} THEN 0
    ELSE LET a == CHOOSE x \in S : TRUE IN balance(a).val + SumBalances(S \ {a})

\* The sum of the totals of the groups.
RECURSIVE SumGroups(_)
SumGroups(grouped) ==
    IF grouped = <<>> THEN 0
    ELSE Head(grouped)[2].total + SumGroups(Tail(grouped))

\* The active assets of a user.
Active(user) == {a \in assets : a.user = user /\ a.is_active}

\* The assets listed in a group.
Listed(group) == {group[2].assets[i] : i \in 1..Len(group[2].assets)}

\* C22: total_balance of the assets view is the sum of the balances of the
\* user's active assets and the sum of the group totals; there is one group
\* per type of an active asset, its total the sum of the balances of the
\* active assets of that type; an inactive asset or an asset of another
\* user is in no group.
C22_AssetsGroupedAndTotalled ==
    \A user \in Users :
        LET v == assets_view(user)
        IN  /\ v.exc = "none"
            /\ v.total_balance = SumBalances(Active(user))
            /\ v.total_balance = SumGroups(v.grouped)
            /\ \A i, j \in 1..Len(v.grouped) : v.grouped[i][1] = v.grouped[j][1] => i = j
            /\ \A a \in Active(user) :
                   \E i \in 1..Len(v.grouped) : v.grouped[i][1] = AssetType[a.type]
            /\ \A i \in 1..Len(v.grouped) :
                   /\ Listed(v.grouped[i]) =
                          {a \in Active(user) : AssetType[a.type] = v.grouped[i][1]}
                   /\ Listed(v.grouped[i]) # {}
                   /\ \A a, b \in Listed(v.grouped[i]) : a.type = b.type
                   /\ Len(v.grouped[i][2].assets) = Cardinality(Listed(v.grouped[i]))
                   /\ v.grouped[i][2].total = SumBalances(Listed(v.grouped[i]))

\* alice holds an active asset with a balance of 10 and an inactive one with
\* a balance of its own, bob an asset with 50: her total is 10, in one group.
C22_Witness ==
    /\ \E a, b, c \in assets :
           /\ a.user = "alice" /\ a.is_active /\ balance(a) = Return(Dec(10))
           /\ b.user = "alice" /\ ~b.is_active /\ balance(b).val > 0
           /\ c.user = "bob" /\ balance(c) = Return(Dec(50))
    /\ assets_view("alice").total_balance = Dec(10)
    /\ Len(assets_view("alice").grouped) = 1
    /\ assets_view("bob").total_balance = Dec(50)

(***************************************************************************)
(* The windows of the statistics view and of the transactions view: the    *)
(* views are asked for the months and years of WindowYears over a store    *)
(* that holds transactions dated at the bounds of some of them.            *)
(***************************************************************************)

\* The years asked for: a common year, a leap year, a century that is no
\* leap year, and the last year a datetime has.
WindowYears == {2023, 2024, 2100, MAXYEAR}

\* The dates of the stored transactions: the first and the last second of
\* February 2023 and 2024, of December 2024 and of the year 2024, and the
\* seconds after them.
WindowDates ==
    <<datetime(2023, 2, 1, 0, 0, 0), datetime(2023, 2, 28, 23, 59, 59),
      datetime(2023, 3, 1, 0, 0, 0), datetime(2023, 12, 31, 23, 59, 59),
      datetime(2024, 1, 1, 0, 0, 0), datetime(2024, 2, 1, 0, 0, 0),
      datetime(2024, 2, 29, 23, 59, 59), datetime(2024, 3, 1, 0, 0, 0),
      datetime(2024, 12, 1, 0, 0, 0), datetime(2024, 12, 31, 23, 59, 59),
      datetime(2025, 1, 1, 0, 0, 0)>>

\* 2 to the power n
RECURSIVE Pow2(_)
Pow2(n) == IF n = 0 THEN 1 ELSE 2 * Pow2(n - 1)

\* One Refill of alice per date of WindowDates (Transaction.objects.create
\* with a date, as the tests store their transactions), of amounts no two
\* sets of which have the same sum, and one of bob in the last second of 2024.
InitWindow ==
    /\ assets = {Asset(1, "alice", "CASH", "RUB", TRUE),
                 Asset(2, "bob", "CASH", "RUB", TRUE)}
    /\ transactions =
           {Transaction(i, "alice", REFILL, Dec(Pow2(i - 1)), "RUB", None, 1,
                        "SALARY", WindowDates[i]) : i \in 1..Len(WindowDates)}
           \cup {Transaction(Len(WindowDates) + 1, "bob", REFILL, Dec(1), "RUB",
                             None, 2, "SALARY", datetime(2024, 12, 31, 23, 59, 59))}
    /\ now = datetime(2024, 2, 29, 23, 59, 59)
    /\ response = redirect("assets")
    /\ call = Idle

\* A GET of the statistics view: the caller holds what it rendered or raised.
call_statistics(user, year, month) ==
    /\ call' = [view |-> "statistics", user |-> user, year |-> year, month |-> month,
                out |-> statistics_view(user, year, month)]
    /\ UNCHANGED <<assets, transactions, now, response>>

\* A GET of the transactions view.
call_transactions(user, year, month) ==
    /\ call' = [view |-> "transactions", user |-> user, year |-> year, month |-> month,
                out |-> transactions_view(user, year, month, None)]
    /\ UNCHANGED <<assets, transactions, now, response>>

NextWindow ==
    \/ \E user \in {"alice", "bob"}, year \in WindowYears, month \in 1..12 :
           call_statistics(user, year, month)
    \/ \E user \in {"alice", "bob"}, year \in WindowYears :
           call_statistics(user, year, None)
    \/ \E user \in {"alice", "bob"}, year \in WindowYears, month \in 1..12 :
           call_transactions(user, year, month)

SpecWindow == InitWindow /\ [][NextWindow]_vars

\* The days of a month, from the calendar: thirty days have September, April,
\* June and November; February has 29 in a year divisible by 4 that is no
\* century, or divisible by 400.
DaysIn(year, month) ==
    CASE month \in {1, 3, 5, 7, 8, 10, 12} -> 31
      [] month \in {4, 6, 9, 11} -> 30
      [] month = 2 /\ year \in {2024} -> 29
      [] month = 2 /\ year \in {2023, 2100, MAXYEAR} -> 28

\* Whether the latest call is one of a view.
Viewed == call # Idle /\ "view" \in DOMAIN call

\* The transactions of the user dated in the year and, when one is given, the
\* month.
DatedIn(user, year, month) ==
    {t \in transactions :
        t.user = user /\ t.date[1] = year /\ (month = None \/ t.date[2] = month)}

\* The transactions a rendered transactions view lists.
ListedBy(context) ==
    LET list == grouped_transactions(context.transactions_by_day)
    IN  {list[i] : i \in 1..Len(list)}

\* C24: for every year and every month 1..12 the month window of the
\* statistics view and of the transactions view is [the first day 00:00:00,
\* the last calendar day 23:59:59], December's ending on December 31 of the
\* same year, and the year window is [January 1 00:00:00, December 31
\* 23:59:59]; the transactions selected are those dated in the month (year),
\* its first and its last second included.
C24_WindowIsTheCalendarMonth ==
    Viewed =>
        /\ call.out.exc = "none"
        /\ call.out.val.start_date =
               IF call.month = None
               THEN <<call.year, 1, 1, 0, 0, 0>>
               ELSE <<call.year, call.month, 1, 0, 0, 0>>
        /\ call.out.val.end_date =
               IF call.month = None
               THEN <<call.year, 12, 31, 23, 59, 59>>
               ELSE <<call.year, call.month, DaysIn(call.year, call.month), 23, 59, 59>>
        /\ call.view = "statistics" =>
               call.out.val.context.total_income = Total(DatedIn(call.user, call.year, call.month))
        /\ call.view = "transactions" =>
               ListedBy(call.out.val.context) = DatedIn(call.user, call.year, call.month)

(***************************************************************************)
(* The transactions view over a store of the four types of transaction:    *)
(* alice and bob post theirs on two days of February 2024 and on the first *)
(* of March.                                                               *)
(***************************************************************************)

\* The posted dates.
DayWhen ==
    {<<<<2024, 2, 10>>, <<12, 0>>>>, <<<<2024, 2, 29>>, <<23, 59>>>>,
     <<<<2024, 3, 1>>, <<0, 0>>>>}

\* The forms alice posts: a Refill, a Waste, a Transfer and a
\* Changing-Balance, of 10 or 30.
DayPosts ==
    {Post(kind[1], amount, "RUB", kind[2], "", when[1], when[2]) :
        kind \in {<<REFILL, <<None, 1>>>>, <<WASTE, <<1, None>>>>,
                  <<TRANSFER, <<1, 2>>>>, <<CHANGING_BALANCE, <<None, 1>>>>},
        amount \in {Dec(10), Dec(30)},
        when \in DayWhen}

\* The forms bob posts: a Refill and a Waste on February 10.
BobDayPosts ==
    {Post(kind[1], Dec(10), "RUB", kind[2], "", <<2024, 2, 10>>, <<12, 0>>) :
        kind \in {<<REFILL, <<None, 3>>>>, <<WASTE, <<3, None>>>>}}

\* The <<year, month>> the transactions view is asked for: two months, and
\* the URL without either (the month of now).
DayPeriods == {<<2024, 2>>, <<2024, 3>>, <<None, None>>}

InitDays == InitStats

NextDays ==
    \/ \E POST \in DayPosts :
           /\ Cardinality(transactions) < MaxTx
           /\ transaction_add("alice", "POST", POST)
    \/ \E POST \in BobDayPosts :
           /\ Cardinality(transactions) < MaxTx
           /\ transaction_add("bob", "POST", POST)
    \/ \E t \in transactions : transaction_delete(t.user, t.id, "POST")

SpecDays == InitDays /\ [][NextDays]_vars

\* The transactions of a user dated in the period p, of the types given.
InMonth(user, types, p) ==
    {t \in transactions : t.user = user /\ t.type \in types /\ InPeriod(t, p)}

\* The sum of the day_total of the days of grouped.
RECURSIVE SumDays(_)
SumDays(grouped) ==
    IF grouped = <<>> THEN 0
    ELSE Head(grouped)[2].day_total + SumDays(Tail(grouped))

\* The elements of a sequence.
Range(seq) == {seq[i] : i \in 1..Len(seq)}

\* C25: in the transactions view the day_total of each day is the sum of
\* the day's Refill amounts minus the sum of its Waste amounts; a Transfer
\* and a Changing-Balance are listed under their day and add nothing to
\* day_total, month_income and month_expense; month_balance, which is
\* month_income - month_expense, is the sum of the day_total of the days.
C25_DayTotalsAndMonthBalance ==
    \A user \in Users, p \in DayPeriods :
        LET c == transactions_over(transactions, user, p[1], p[2], None)
            days == c.transactions_by_day
            All == InMonth(user, TransactionType, p)
        IN  /\ {days[i][1] : i \in 1..Len(days)} = {day_of(t) : t \in All}
            /\ \A i, j \in 1..Len(days) : days[i][1] = days[j][1] => i = j
            /\ \A i \in 1..Len(days) :
                   LET OfDay == {t \in All : day_of(t) = days[i][1]}
                   IN  /\ Range(days[i][2].transactions) = OfDay
                       /\ Len(days[i][2].transactions) = Cardinality(OfDay)
                       /\ days[i][2].day_total =
                              Total({t \in OfDay : t.type = REFILL})
                                  - Total({t \in OfDay : t.type = WASTE})
            /\ c.month_income = Total(InMonth(user, {REFILL}, p))
            /\ c.month_expense = Total(InMonth(user, {WASTE}, p))
            /\ c.month_balance = c.month_income - c.month_expense
            /\ c.month_balance = SumDays(days)

\* On February 10, 2024 a Refill of 30 and a Transfer of 10: both are listed
\* under the day, whose total is 30, as the income and the balance of the
\* month are.
C25_Witness ==
    /\ \E r, t \in InMonth("alice", TransactionType, <<2024, 2>>) :
           /\ transactions = {r, t}
           /\ r.type = REFILL /\ r.amount = Dec(30) /\ day_of(r) = <<2024, 2, 10>>
           /\ t.type = TRANSFER /\ t.amount = Dec(10) /\ day_of(t) = <<2024, 2, 10>>
    /\ LET c == transactions_over(transactions, "alice", 2024, 2, None)
       IN  /\ Len(c.transactions_by_day) = 1
           /\ Len(c.transactions_by_day[1][2].transactions) = 2
           /\ c.transactions_by_day[1][2].day_total = Dec(30)
           /\ c.month_income = Dec(30)
           /\ c.month_expense = 0
           /\ c.month_balance = Dec(30)

OwnerPosts ==
    {Post(kind[1], Dec(10), "RUB", kind[2], "", <<2024, 2, 10>>, <<12, 0>>) :
        kind \in {<<REFILL, <<None, 1>>>>, <<REFILL, <<None, 3>>>>,
                  <<WASTE, <<1, None>>>>, <<WASTE, <<3, None>>>>,
                  <<TRANSFER, <<1, 3>>>>, <<TRANSFER, <<3, 1>>>>}}

InitOwners ==
    /\ assets = {Asset(1, "alice", "CASH", "RUB", TRUE),
                 Asset(2, "alice", "DEBIT_CARD", "RUB", TRUE),
                 Asset(3, "bob", "CASH", "RUB", TRUE)}
    /\ transactions = {}
    /\ now = ViewNow
    /\ response = redirect("assets")
    /\ call = Idle

NextOwners ==
    \/ \E user \in {"alice", "bob"}, POST \in OwnerPosts :
           /\ Cardinality(transactions) < MaxTx
           /\ transaction_add(user, "POST", POST)
    \/ \E user \in {"alice", "bob"}, pk \in TxPks, POST \in OwnerPosts :
           transaction_edit(user, pk, "POST", POST)
    \/ \E t \in transactions : transaction_delete(t.user, t.id, "POST")

SpecOwners == InitOwners /\ [][NextOwners]_vars

\* Every asset a transaction names is an asset of the transaction's user.
EndpointsOwned ==
    \A t \in transactions :
        \A id \in {t.from_asset, t.to_asset} \ {None} :
            \E a \in assets : a.id = id /\ a.user = t.user

\* A transaction_add or transaction_edit request of a user leaves the balance
\* of every asset of another user as it was.
OthersBalancesKept ==
    \A user \in {"alice", "bob"}, POST \in OwnerPosts :
        (\/ transaction_add(user, "POST", POST)
         \/ \E pk \in TxPks : transaction_edit(user, pk, "POST", POST))
        => \A a \in assets :
               a.user # user => balance_over(transactions', a, now) = balance(a)

\* C27: after any transaction_add and transaction_edit requests of any users
\* the from_asset and to_asset of every transaction, when set, are assets of
\* the transaction's own user; hence no request of a user changes the balance
\* of an asset of another user.
C27_EndpointsOwnedByUser ==
    /\ []EndpointsOwned
    /\ [][OthersBalancesKept]_vars

(***************************************************************************)
(* Two asset_edit requests for one asset, served side by side.  No         *)
(* statement of the handler locks a row and no transaction spans it, so a  *)
(* request is two steps: it reads the asset and its balance                *)
(* (views.py:296-309), and later stores the posted fields and the          *)
(* correction (views.py:311-363).  call[r] holds the request r between     *)
(* the two.                                                                *)
(***************************************************************************)

Requests == {1, 2}

\* The forms posted: a balance of 0, 10 or 20, the asset active or not.
RaceForms ==
    {[type |-> "CASH", currency |-> "RUB", balance |-> b, is_active |-> active] :
        b \in {0, Dec(10), Dec(20)}, active \in {TRUE, FALSE}}

\* A request that has not been received.
NotReceived ==
    [pc |-> "start", user |-> "", POST |-> CHOOSE POST \in RaceForms : TRUE,
     asset |-> Asset(None, "", "", "", FALSE), current_balance |-> 0,
     overlapped |-> FALSE]

InitRace ==
    /\ assets = {Asset(1, "alice", "CASH", "RUB", TRUE)}
    /\ transactions = {}
    /\ now = ViewNow
    /\ response = redirect("assets")
    /\ call = [r \in Requests |-> NotReceived]

\* The first part of asset_edit, for a POST: the asset is fetched and
\* current_balance read.  overlapped records that another request has read
\* its balance and has stored nothing yet.
asset_edit_read(r, user, pk, POST) ==
    /\ call[r].pc = "start"
    /\ IF get_asset(pk, user) = {}
       THEN /\ response' = Http404
            /\ call' = [call EXCEPT ![r].pc = "done"]
       ELSE LET asset == CHOOSE a \in get_asset(pk, user) : TRUE
                current_balance == balance(asset)
            IN  IF current_balance.exc # "none"
                THEN /\ response' = ServerError
                     /\ call' = [call EXCEPT ![r].pc = "done"]
                ELSE /\ call' = [call EXCEPT ![r] =
                                    [pc |-> "read", user |-> user, POST |-> POST,
                                     asset |-> asset,
                                     current_balance |-> current_balance.val,
                                     overlapped |->
                                         \E q \in Requests \ {r} : call[q].pc = "read"]]
                     /\ UNCHANGED response
    /\ UNCHANGED <<assets, transactions, now>>

\* The second part: the correction is created from the balance read in the
\* first, and asset.save() writes the fields of the object fetched then.
asset_edit_write(r) ==
    /\ call[r].pc = "read"
    /\ LET asset == call[r].asset
           POST == call[r].POST
           balance_diff == POST.balance - call[r].current_balance
       IN  /\ transactions' =
                  IF POST.balance # call[r].current_balance
                  THEN transactions \cup
                       {Transaction(new_id(transactions), call[r].user, CHANGING_BALANCE,
                            decimal_places(abs(balance_diff)), POST.currency,
                            IF balance_diff > 0 THEN None ELSE asset.id,
                            IF balance_diff > 0 THEN asset.id ELSE None,
                            "", now)}
                  ELSE transactions
           /\ assets' = {a \in assets : a.id # asset.id} \cup
                  {[asset EXCEPT !.currency = POST.currency,
                                 !.is_active = POST.is_active]}
    /\ response' = redirect("assets")
    /\ call' = [call EXCEPT ![r].pc = "done"]
    /\ UNCHANGED now

NextRace ==
    \/ \E r \in Requests, POST \in RaceForms : asset_edit_read(r, "alice", 1, POST)
    \/ \E r \in Requests : asset_edit_write(r)

SpecRace == InitRace /\ [][NextRace]_vars

\* C28: when two asset_edit requests for one asset overlap, each reading the
\* balance before either has stored its correction, the balance of the asset
\* after both have completed is the balance one of the two posted.
C28_OverlappingEditsKeepAPostedBalance ==
    (/\ \A r \in Requests : call[r].pc = "done"
     /\ \E r \in Requests : call[r].overlapped)
    => \E a \in assets :
           /\ a.id = 1
           /\ \E r \in Requests : balance(a) = Return(call[r].POST.balance)

====
